---- MODULE Spec2Model ----
(***************************************************************************)
(* RPD extraction pipeline of app/rpd/extractor.py: the orchestrator       *)
(* extract_rpd_data, its four field-group helpers (completion-service path *)
(* with a rule-based fallback), the response parser and the validator.     *)
(*                                                                         *)
(* Text is modelled as a sequence of lines; a line is a record             *)
(* [kind, num, paren].  Each line value stands for one concrete string     *)
(* (Russian, written here in transliteration; strings of the model are the *)
(* transliterated values):                                                 *)
(*   blank   "   "                                                         *)
(*   prose   "Obshchie svedeniya"                                          *)
(*   title   "Disciplina: Fizika"                                          *)
(*   prof    "Napravlenie podgotovki: Himiya"                              *)
(*   master  "Magistratura"            phd  "Aspirantura"                  *)
(*   hours   "Vsego chasov: <num> ch."                                     *)
(*   tema    "Tema <num>. Vvedenie"  or, with paren = <<h>>,               *)
(*           "Tema <num>. Vvedenie (<h> chasa)"                            *)
(*   lekciya "Lekciya <num>. Vvedenie", with paren as for tema             *)
(*   lab     "Laboratornaya rabota 1. Sborka"                              *)
(*   lithead "Literatura:"                                                 *)
(*   ref     "1. Ivanov I.I. Osnovy fiziki. 2020 g."                       *)
(* A run of digits is a record [len, val, str]: its number of digits, its  *)
(* value and its text.  The value of an Optional field or key is a         *)
(* sequence: << >> is None, <<v>> is v.  Floats that the code only         *)
(* produces in whole numbers (hours) are kept as integers;                 *)
(* extraction_confidence is kept in tenths.                                *)
(***************************************************************************)
EXTENDS Integers, Sequences, FiniteSets, TLC

\* Longest document, in lines, that a call is given.
MaxLines == 2

\* CPython's limit on the digits of a decimal string given to int().
IntMaxStrDigits == 4300

None == << >>
Some(v) == <<v>>

Ok(v) == [raised |-> FALSE, exc |-> "", val |-> v]
Raise(e) == [raised |-> TRUE, exc |-> e, val |-> << >>]

\* dict.get(key, default)
Get(d, k, default) == IF k \in DOMAIN d THEN d[k] ELSE default

Max(a, b) == IF a >= b THEN a ELSE b

RECURSIVE SeqMap(_, _)
SeqMap(Op(_), s) == IF s = << >> THEN << >> ELSE <<Op(Head(s))>> \o SeqMap(Op, Tail(s))

RECURSIVE Flatten(_)
Flatten(ss) == IF ss = << >> THEN << >> ELSE Head(ss) \o Flatten(Tail(ss))

(***************************************************************************)
(* Documents                                                               *)
(***************************************************************************)
One == [len |-> 1, val |-> 1, str |-> "1"]
Zero == [len |-> 1, val |-> 0, str |-> "0"]
Four == [len |-> 1, val |-> 4, str |-> "4"]
N144 == [len |-> 3, val |-> 144, str |-> "144"]
\* a run of 4301 digits "1": too long for int(); its value is never used
Huge == [len |-> IntMaxStrDigits + 1, val |-> 0, str |-> "1111.."]

Line(k, n, p) == [kind |-> k, num |-> n, paren |-> p]

PlainKinds == {"blank", "prose", "title", "prof", "master", "phd", "lab", "lithead", "ref"}

Lines ==
    {Line(k, Zero, None) : k \in PlainKinds}
    \cup {Line("hours", n, None) : n \in {N144, Huge}}
    \cup {Line("tema", n, p) : n \in {One, Huge}, p \in {None, Some(Zero), Some(Four)}}

RECURSIVE SeqsUpTo(_, _)
SeqsUpTo(S, n) ==
    IF n = 0 THEN {<< >>}
    ELSE LET shorter == SeqsUpTo(S, n - 1)
         IN  shorter \cup {Append(s, x) : s \in shorter, x \in S}

Texts == SeqsUpTo(Lines, MaxLines)

\* parsed documents: without a raw_text key, or with one
ParsedDocuments == {<< >>} \cup {[raw_text |-> t] : t \in Texts}

\* int(digits)
PyInt(tok) == IF tok.len > IntMaxStrDigits THEN Raise("ValueError") ELSE Ok(tok.val)

\* str.strip() on a text: leading and trailing whitespace lines go
RECURSIVE LStrip(_)
LStrip(t) == IF t # << >> /\ Head(t).kind = "blank" THEN LStrip(Tail(t)) ELSE t

RECURSIVE RStrip(_)
RStrip(t) ==
    IF t # << >> /\ t[Len(t)].kind = "blank" THEN RStrip(SubSeq(t, 1, Len(t) - 1)) ELSE t

\* the text as it is: the emptiness test without .strip()
StripNothing(t) == t

Strip(t) == RStrip(LStrip(t))

(***************************************************************************)
(* Fallback extractor: rule-based extraction from the raw text             *)
(***************************************************************************)
KindLines(t, k) == SelectSeq(t, LAMBDA l : l.kind = k)

\* re.search of the subject-title patterns: the first "Disciplina: ..." line
SubjectTitleOf(t) ==
    IF KindLines(t, "title") # << >> THEN "Fizika" ELSE ""

\* the degree named by the word found, not by the enumeration's name
DegreeInRussian(t) ==
    IF KindLines(t, "master") # << >> THEN "magistr"
    ELSE IF KindLines(t, "phd") # << >> THEN "aspirant"
    ELSE "bachelor"

\* 'magistr'/'master' is looked for before 'aspirant'/'phd'/'doktorant'
DegreeOf(t) ==
    IF KindLines(t, "master") # << >> THEN "master"
    ELSE IF KindLines(t, "phd") # << >> THEN "phd"
    ELSE "bachelor"

ProfessionOf(t) ==
    IF KindLines(t, "prof") # << >> THEN "Himiya" ELSE ""

\* the first match of the hours patterns is converted with int(), then break
TotalHoursOf(t) ==
    IF KindLines(t, "hours") # << >> THEN PyInt(Head(KindLines(t, "hours")).num)
    ELSE Ok(0)

_extract_basic_info_fallback(t) ==
    LET hours == TotalHoursOf(t)
    IN  IF hours.raised THEN Raise(hours.exc)
        ELSE Ok([subject_title |-> SubjectTitleOf(t),
                 academic_degree |-> DegreeOf(t),
                 profession |-> ProfessionOf(t),
                 total_hours |-> hours.val])

ParenText(l) == " (" \o l.paren[1].str \o " chasa)"

\* patterns 1 and 2, "tema N. title" and "lekciya N. title": the title runs
\* to the end of the line and the hours stay at the default
ThemeByTema(l) ==
    [title |-> IF l.paren = None THEN "Vvedenie" ELSE "Vvedenie" \o ParenText(l),
     order |-> PyInt(l.num),
     hours |-> 2]

\* pattern 3, "N. title (H chas": the title stops before the parenthesis and
\* the hours are float(H)
ThemeByParen(l) ==
    [title |-> "Vvedenie", order |-> PyInt(l.num), hours |-> l.paren[1].val]

\* the matches in the order the code collects them: pattern by pattern
ThemeMatches(t) ==
    SeqMap(ThemeByTema, KindLines(t, "tema"))
    \o SeqMap(ThemeByTema, KindLines(t, "lekciya"))
    \o SeqMap(ThemeByParen,
              SelectSeq(t, LAMBDA l : l.kind \in {"tema", "lekciya"} /\ l.paren # None))

UnwrapOrder(th) == [title |-> th.title, order |-> th.order.val, hours |-> th.hours]

\* int(match.group(1)) raises out of the loop at the first over-long number
_extract_lecture_themes_fallback(t) ==
    IF \E i \in 1..Len(ThemeMatches(t)) : ThemeMatches(t)[i].order.raised
    THEN Raise("ValueError")
    ELSE Ok(SeqMap(UnwrapOrder, ThemeMatches(t)))

LabOf(l) == [title |-> "Sborka", description |-> "Sborka", estimated_hours |-> Some(2)]

_extract_lab_examples_fallback(t) == Ok(SeqMap(LabOf, KindLines(t, "lab")))

\* len(line.strip()) of the concrete string a line stands for
LineLength(l) ==
    CASE l.kind = "blank" -> 0
      [] l.kind = "prose" -> 14
      [] l.kind = "title" -> 18
      [] l.kind = "prof" -> 29
      [] l.kind = "master" -> 12
      [] l.kind = "phd" -> 11
      [] l.kind = "lab" -> 29
      [] l.kind = "lithead" -> 11
      [] l.kind = "ref" -> 37
      [] l.kind = "hours" -> 16 + l.num.len
      [] l.kind = "tema" /\ l.paren = None -> 15 + l.num.len
      [] l.kind = "tema" /\ l.paren # None -> 23 + l.num.len + l.paren[1].len
      [] l.kind = "lekciya" /\ l.paren = None -> 17 + l.num.len
      [] l.kind = "lekciya" /\ l.paren # None -> 25 + l.num.len + l.paren[1].len

\* A reference line is longer than this many characters.
MinReferenceLength == 20

\* The concrete line seen by the reference pattern, after its leading ordinal:
\* the text before its first period, the text after it, and, for a line
\* without a period, that text without its last character and the character.
LineText(l) ==
    CASE l.kind = "prof" ->
           [before |-> "Napravlenie podgotovki: Himiya", period |-> FALSE, after |-> "",
            chopped |-> "Napravlenie podgotovki: Himi", last |-> "ya"]
      [] l.kind = "lab" ->
           [before |-> "Laboratornaya rabota 1", period |-> TRUE, after |-> "Sborka",
            chopped |-> "", last |-> ""]
      [] l.kind = "ref" ->
           [before |-> "Ivanov I", period |-> TRUE, after |-> "I. Osnovy fiziki. 2020 g.",
            chopped |-> "", last |-> ""]
      [] l.kind = "hours" ->
           [before |-> "Vsego chasov: " \o l.num.str \o " ch", period |-> TRUE, after |-> "",
            chopped |-> "", last |-> ""]
      [] l.kind = "tema" ->
           [before |-> "Tema " \o l.num.str, period |-> TRUE,
            after |-> IF l.paren = None THEN "Vvedenie" ELSE "Vvedenie" \o ParenText(l),
            chopped |-> "", last |-> ""]
      [] l.kind = "lekciya" ->
           [before |-> "Lekciya " \o l.num.str, period |-> TRUE,
            after |-> IF l.paren = None THEN "Vvedenie" ELSE "Vvedenie" \o ParenText(l),
            chopped |-> "", last |-> ""]
      [] OTHER ->
           [before |-> l.kind, period |-> FALSE, after |-> "", chopped |-> "", last |-> l.kind]

\* re.match(r'(\d+\.?\s*)?([^\.]+)\.?\s*([^/]+)', line): group 2 runs to the
\* first period, group 3 is what follows and needs one character at least,
\* which backtracking takes from the period or from the end of group 2
RefMatch(l) ==
    LET x == LineText(l)
    IN  IF x.after # "" THEN [author_title |-> x.before, rest |-> x.after]
        ELSE IF x.period THEN [author_title |-> x.before, rest |-> "."]
        ELSE [author_title |-> x.chopped, rest |-> x.last]

\* re.search(r'(\d{4})', line): the first run of four digits, through int()
YearOf(l) ==
    IF l.kind \in {"hours", "tema", "lekciya"} /\ l.num.len >= 4 THEN Some(1111)
    ELSE IF l.kind = "ref" THEN Some(2020)
    ELSE None

\* group 2 holds no period, so the code's split on '.' is never taken:
\* authors is group 2 and title is group 3
ReferenceOf(l) ==
    [authors |-> RefMatch(l).author_title, title |-> RefMatch(l).rest, year |-> YearOf(l)]

RECURSIVE UntilBlank(_)
UntilBlank(t) ==
    IF t = << >> \/ Head(t).kind = "blank" THEN << >> ELSE <<Head(t)>> \o UntilBlank(Tail(t))

RECURSIVE AfterHeading(_)
AfterHeading(t) ==
    IF t = << >> THEN << >>
    ELSE IF Head(t).kind = "lithead" THEN <<Tail(t)>>
    ELSE AfterHeading(Tail(t))

\* the text after the first literature heading and the whitespace that
\* follows it, up to the next blank line or the end of the text
LiteratureSection(t) ==
    IF AfterHeading(t) = << >> THEN << >> ELSE UntilBlank(LStrip(AfterHeading(t)[1]))

_extract_literature_fallback(t) ==
    Ok(SeqMap(ReferenceOf,
              SelectSeq(LiteratureSection(t), LAMBDA l : LineLength(l) > MinReferenceLength)))

(***************************************************************************)
(* Completion service (model_manager and the model it hands out)           *)
(*                                                                         *)
(* A response text is a sequence of chunks: whitespace, brace-free prose,  *)
(* the JSON encoding of an object, or a stray brace.  LongObject is the     *)
(* text {"total_hours": 11..1} whose number has IntMaxStrDigits + 1 digits. *)
(***************************************************************************)
Ws == [t |-> "ws", v |-> << >>]
Prose == [t |-> "prose", v |-> << >>]
Open == [t |-> "open", v |-> << >>]
Close == [t |-> "close", v |-> << >>]
Obj(d) == [t |-> "obj", v |-> d]
LongObject == [t |-> "longobj", v |-> << >>]

\* the chunks that hold a '{', and those that hold a '}'
WithOpen == {"obj", "longobj", "open"}
WithClose == {"obj", "longobj", "close"}

\* every item can be built into its entity; one theme has hours 0
GoodObject ==
    [subject_title |-> "Algebra", academic_degree |-> "phd",
     profession |-> "Matematika", total_hours |-> 72, department |-> Some("Kafedra IT"),
     lecture_themes |-> <<[title |-> "Predely", order |-> 1, hours |-> 0],
                          [title |-> "Ryady", order |-> 2, hours |-> 4]>>,
     lab_examples |-> <<[title |-> "Praktikum", description |-> "Zadachi"]>>,
     literature_references |-> <<[authors |-> "Petrov P", title |-> "Analiz", year |-> Some(2021)]>>]

\* a degree outside the enumeration; of the lecture themes the second lacks
\* the required key hours and the third carries an unknown key
OddObject ==
    [subject_title |-> "Algebra", academic_degree |-> "specialist",
     profession |-> "Matematika", total_hours |-> 72,
     lecture_themes |-> <<[title |-> "Predely", order |-> 1, hours |-> 2],
                          [title |-> "Ryady", order |-> 2],
                          [title |-> "Integraly", order |-> 3, hours |-> 2, week |-> 5]>>,
     lab_examples |-> <<[title |-> "Praktikum", description |-> "Zadachi"]>>,
     literature_references |-> <<[authors |-> "Petrov P", title |-> "Analiz", year |-> Some(2021)]>>]

Responses ==
    { <<Ws, Obj(GoodObject), Ws>>,           \* the object alone, as the extractor's test gives it
      <<Prose, Obj(OddObject), Prose>>,      \* the object wrapped in prose
      <<Prose>>,                             \* no JSON at all
      <<Obj(GoodObject), Prose, Obj(GoodObject)>> }   \* two objects: the slice is no JSON

NoService == [configured |-> FALSE, get_model |-> "none", generate |-> "none", response |-> << >>]

\* a configured service: get_llm_model raises or hands out a model, whose
\* generate raises or returns {'response': text}
Services ==
    {NoService}
    \cup {[configured |-> TRUE, get_model |-> "raise", generate |-> "none", response |-> << >>]}
    \cup {[configured |-> TRUE, get_model |-> "ok", generate |-> "raise", response |-> << >>]}
    \cup {[configured |-> TRUE, get_model |-> "ok", generate |-> "return", response |-> r] :
            r \in Responses}

Groups == {"basic_info", "lecture_themes", "lab_examples", "literature"}

\* A prompt template as str.format reads it: literal text and replacement
\* fields.  The JSON skeleton of every template opens with an unescaped
\* brace, so its first line is read as a replacement field.
Lit(x) == [field |-> FALSE, name |-> x]
Field(x) == [field |-> TRUE, name |-> x]

_load_extraction_prompts ==
    [basic_info |-> <<Lit("Izvleki osnovnuyu informaciyu"), Field("subject_title"),
                      Lit("Tekst RPD:"), Field("text"), Lit("JSON:")>>,
     lecture_themes |-> <<Lit("Izvleki temy lekcij"), Field("lecture_themes"),
                          Lit("Tekst RPD:"), Field("text"), Lit("JSON:")>>,
     lab_examples |-> <<Lit("Izvleki primery laboratornyh rabot"), Field("lab_examples"),
                        Lit("Tekst RPD:"), Field("text"), Lit("JSON:")>>,
     literature |-> <<Lit("Izvleki spisok literatury"), Field("literature_references"),
                      Lit("Tekst RPD:"), Field("text"), Lit("JSON:")>>]

\* str.format(**kwargs): a replacement field that names no argument raises
\* KeyError; otherwise each field is replaced by its argument
Format(template, kwargs) ==
    IF \E i \in 1..Len(template) : template[i].field /\ template[i].name \notin DOMAIN kwargs
    THEN Raise("KeyError")
    ELSE Ok([i \in 1..Len(template) |->
              IF template[i].field THEN kwargs[template[i].name] ELSE template[i].name])

\* characters of a line in the raw text
RawLength(l) == IF l.kind = "blank" THEN 3 ELSE LineLength(l)

\* text[:n]: the lines that fit whole, then the line the cut falls in
RECURSIVE Truncate(_, _)
Truncate(t, n) ==
    IF t = << >> \/ n <= 0 THEN << >>
    ELSE IF RawLength(Head(t)) <= n
         THEN <<Head(t)>> \o Truncate(Tail(t), n - RawLength(Head(t)) - 1)
         ELSE <<[kind |-> "cut", num |-> Head(t).num, paren |-> None]>>

TextBudget ==
    [basic_info |-> 3000, lecture_themes |-> 4000, lab_examples |-> 4000, literature |-> 4000]

NumPredict ==
    [basic_info |-> 500, lecture_themes |-> 1000, lab_examples |-> 1000, literature |-> 1500]

SubKey ==
    [basic_info |-> "", lecture_themes |-> "lecture_themes", lab_examples |-> "lab_examples",
     literature |-> "literature_references"]

(***************************************************************************)
(* Response parser                                                         *)
(***************************************************************************)
\* str.strip() on a response text
RECURSIVE StripLeft(_)
StripLeft(r) == IF r # << >> /\ Head(r).t = "ws" THEN StripLeft(Tail(r)) ELSE r

RECURSIVE StripRight(_)
StripRight(r) ==
    IF r # << >> /\ r[Len(r)].t = "ws" THEN StripRight(SubSeq(r, 1, Len(r) - 1)) ELSE r

StripText(r) == StripRight(StripLeft(r))

\* str.find('{') and str.rfind('}') as chunk positions; 0 stands for -1
FindOpen(r) ==
    IF \E i \in 1..Len(r) : r[i].t \in WithOpen
    THEN CHOOSE i \in 1..Len(r) :
           r[i].t \in WithOpen /\ \A j \in 1..(i - 1) : r[j].t \notin WithOpen
    ELSE 0

RFindClose(r) ==
    IF \E i \in 1..Len(r) : r[i].t \in WithClose
    THEN CHOOSE i \in 1..Len(r) :
           r[i].t \in WithClose /\ \A j \in (i + 1)..Len(r) : r[j].t \notin WithClose
    ELSE 0

\* json.loads of a slice that starts with '{' and ends with '}': one encoded
\* object decodes to it, a bare pair of braces to the empty object, anything
\* else is a JSONDecodeError (so is the empty slice).  The scanner converts a
\* number as it meets it: the long number of a leading LongObject is refused
\* by int() before the rest of the slice is looked at.
JsonLoads(slice) ==
    IF Len(slice) = 1 /\ slice[1].t = "obj" THEN Ok(slice[1].v)
    ELSE IF Len(slice) >= 1 /\ slice[1].t = "longobj" THEN Raise("ValueError")
    ELSE IF /\ Len(slice) >= 2
            /\ slice[1].t = "open"
            /\ slice[Len(slice)].t = "close"
            /\ \A i \in 2..(Len(slice) - 1) : slice[i].t = "ws"
         THEN Ok(<< >>)
    ELSE Raise("JSONDecodeError")

\* the parser returns None or the dict (Some(d)); its except clause catches
\* json.JSONDecodeError only, any other exception leaves it
_parse_json_response(json_text) ==
    LET text == StripText(json_text)
        start_idx == FindOpen(text)
        end_idx == RFindClose(text)
    IN  IF start_idx # 0 /\ end_idx # 0
        THEN LET decoded == JsonLoads(SubSeq(text, start_idx, end_idx))
             IN  IF decoded.raised
                 THEN IF decoded.exc = "JSONDecodeError" THEN Ok(None) ELSE Raise(decoded.exc)
                 ELSE Ok(Some(decoded.val))
        ELSE Ok(None)

(***************************************************************************)
(* Field-group helpers: the completion-service path with the fallback      *)
(***************************************************************************)
Event(op, g, arg) == [op |-> op, group |-> g, arg |-> arg]

Fallback(g, t) ==
    CASE g = "basic_info" -> _extract_basic_info_fallback(t)
      [] g = "lecture_themes" -> _extract_lecture_themes_fallback(t)
      [] g = "lab_examples" -> _extract_lab_examples_fallback(t)
      [] g = "literature" -> _extract_literature_fallback(t)

\* what the helper returns from a parsed response: the object itself for the
\* basic info, `result.get(key, []) if result else []` for the lists; None
\* and the empty dict are both << >>, the callers only test truthiness
FromResponse(g, result) ==
    IF result = None \/ result[1] = << >> THEN << >>
    ELSE IF g = "basic_info" THEN result[1]
    ELSE Get(result[1], SubKey[g], << >>)

\* the body of `if self.model_manager:`: get_llm_model, the prompt rendered
\* from the template, generate, the response parsed
ModelPath(g, t, mm) ==
    IF mm.get_model = "raise"
    THEN [out |-> Raise("ModelError"), calls |-> <<Event("get_llm_model", g, 0)>>]
    ELSE LET prompt == Format(_load_extraction_prompts[g], [text |-> Truncate(t, TextBudget[g])])
         IN  IF prompt.raised
             THEN [out |-> Raise(prompt.exc), calls |-> <<Event("get_llm_model", g, 0)>>]
             ELSE IF mm.generate = "raise"
             THEN [out |-> Raise("GenerateError"),
                   calls |-> <<Event("get_llm_model", g, 0), Event("generate", g, NumPredict[g])>>]
             ELSE LET result == _parse_json_response(StripText(mm.response))
                  IN  [out |-> IF result.raised THEN Raise(result.exc)
                               ELSE Ok(FromResponse(g, result.val)),
                       calls |-> <<Event("get_llm_model", g, 0),
                                   Event("generate", g, NumPredict[g]), Event("parse", g, 0)>>]

\* the helper without its except clause: what the model path raises leaves it
ExtractGroupUnrecovered(g, t, mm) ==
    IF mm.configured THEN ModelPath(g, t, mm)
    ELSE [out |-> Fallback(g, t), calls |-> <<Event("fallback", g, 0)>>]

\* try: the model path, or the fallback when no model manager is set;
\* except Exception: the fallback (whose own exception leaves the helper)
ExtractGroup(g, t, mm) ==
    LET first == IF mm.configured THEN ModelPath(g, t, mm)
                 ELSE [out |-> Fallback(g, t), calls |-> <<Event("fallback", g, 0)>>]
    IN  IF first.out.raised
        THEN [out |-> Fallback(g, t), calls |-> first.calls \o <<Event("fallback", g, 0)>>]
        ELSE first

_extract_basic_info(t, mm) == ExtractGroup("basic_info", t, mm)

_extract_lecture_themes(t, mm) == ExtractGroup("lecture_themes", t, mm)

_extract_lab_examples(t, mm) == ExtractGroup("lab_examples", t, mm)

_extract_literature(t, mm) == ExtractGroup("literature", t, mm)

(***************************************************************************)
(* Entities                                                                *)
(***************************************************************************)
LectureTheme ==
    [required |-> {"title", "order", "hours"}, defaults |-> [description |-> None]]

LabExample ==
    [required |-> {"title", "description"},
     defaults |-> [theme_relation |-> None, estimated_hours |-> None]]

LiteratureReference ==
    [required |-> {"authors", "title"},
     defaults |-> [year |-> None, pages |-> None, publisher |-> None, isbn |-> None,
                   kpfu_available |-> FALSE, kpfu_book_id |-> None]]

\* cls(**d): TypeError on a missing required key or an unknown key
Construct(cls, d) ==
    IF cls.required \subseteq DOMAIN d /\ DOMAIN d \subseteq cls.required \cup DOMAIN cls.defaults
    THEN Ok([f \in cls.required \cup DOMAIN cls.defaults |->
              IF f \in DOMAIN d THEN d[f] ELSE cls.defaults[f]])
    ELSE Raise("TypeError")

\* [cls(**item) for item in items]: the first failure ends the comprehension
ConstructAll(cls, items) ==
    IF \E i \in 1..Len(items) : Construct(cls, items[i]).raised
    THEN Raise("TypeError")
    ELSE Ok([i \in 1..Len(items) |-> Construct(cls, items[i]).val])

\* RPDData(subject_title="", academic_degree="bachelor", profession="", total_hours=0)
RPDData ==
    [subject_title |-> "", academic_degree |-> "bachelor", profession |-> "", total_hours |-> 0,
     department |-> None, faculty |-> None, year |-> None, semester |-> None,
     lecture_themes |-> << >>, lab_examples |-> << >>, literature_references |-> << >>,
     extraction_confidence |-> None, extraction_errors |-> << >>]

(***************************************************************************)
(* Validator                                                               *)
(***************************************************************************)
Err(msg, i) == [msg |-> msg, idx |-> i]

\* strings that str.strip() empties
Whitespace == {"", " "}

valid_degrees == {"bachelor", "master", "phd"}

\* The hours a theme with hours <= 0 is given.
DefaultHours == 2

ThemeErrors(theme, i) ==
    (IF theme.title \in Whitespace THEN <<Err("Lecture theme has empty title", i)>> ELSE << >>)
    \o (IF theme.hours <= 0 THEN <<Err("Lecture theme hours corrected to 2.0", i)>> ELSE << >>)

\* the warning without the correction
KeepTheme(theme) == theme

CorrectTheme(theme) ==
    IF theme.hours <= 0 THEN [theme EXCEPT !.hours = DefaultHours] ELSE theme

\* max(0.1, 1.0 - len(errors) * 0.1), in tenths
Confidence(errors) ==
    IF errors = << >> THEN 10 ELSE Max(1, 10 - Len(errors))

\* the local list `errors` of one pass: one warning per failed check
Warnings(rpd) ==
    (IF rpd.subject_title \in Whitespace
     THEN <<Err("Subject title is required", 0)>> ELSE << >>)
    \o (IF rpd.profession \in Whitespace
        THEN <<Err("Profession/direction is required", 0)>> ELSE << >>)
    \o (IF rpd.total_hours <= 0
        THEN <<Err("Total hours must be positive", 0)>> ELSE << >>)
    \o (IF rpd.academic_degree \notin valid_degrees
        THEN <<Err("Invalid academic degree, defaulted to 'bachelor'", 0)>> ELSE << >>)
    \o Flatten([i \in 1..Len(rpd.lecture_themes) |-> ThemeErrors(rpd.lecture_themes[i], i)])

\* the warning without the correction
KeepDegree(d) == d

CorrectDegree(d) == IF d \notin valid_degrees THEN "bachelor" ELSE d

\* extraction_errors = errors
Overwrite(old, errors) == errors

\* extraction_errors.extend(errors)
Extend(old, errors) == old \o errors

\* the confidence taken from every error the record holds
ValidateCountingAll(rpd) ==
    LET errors == Warnings(rpd)
    IN  [rpd EXCEPT
            !.academic_degree = CorrectDegree(@),
            !.lecture_themes = [i \in 1..Len(@) |-> CorrectTheme(@[i])],
            !.extraction_confidence = Some(Confidence(rpd.extraction_errors \o errors)),
            !.extraction_errors = Extend(@, errors)]

\* a pass that also gives the total hours a default
ValidateFillingHours(rpd) ==
    LET errors == Warnings(rpd)
    IN  [rpd EXCEPT
            !.total_hours = IF @ <= 0 THEN 1 ELSE @,
            !.academic_degree = CorrectDegree(@),
            !.lecture_themes = [i \in 1..Len(@) |-> CorrectTheme(@[i])],
            !.extraction_confidence = Some(Confidence(errors)),
            !.extraction_errors = Extend(@, errors)]

_validate_rpd_data(rpd) ==
    LET errors == Warnings(rpd)
    IN  [rpd EXCEPT
            !.academic_degree = CorrectDegree(@),
            !.lecture_themes = [i \in 1..Len(@) |-> CorrectTheme(@[i])],
            !.extraction_confidence = Some(Confidence(errors)),
            !.extraction_errors = Extend(@, errors)]

(***************************************************************************)
(* extract_rpd_data, one call on one extractor                             *)
(***************************************************************************)
VARIABLES
    model_manager,     \* the extractor's completion service, set at construction
    pc,                \* where the call stands
    raw_text,          \* the call's local raw_text
    rpd_data,          \* the call's record; NoRecord before it is created
    calls,             \* what the call has run so far, in order
    exception,         \* what the call raised to its caller, "" if nothing
    file_paths,        \* the paths given to the processor
    results,           \* the processor's list of results
    json_text,         \* the response text given to the response parser
    result,            \* what a helper called on its own returned
    cache_manager,     \* the cache manager: its memory_cache and its redis_client
    now                \* datetime.now(), in seconds

vars == <<model_manager, pc, raw_text, rpd_data, calls, exception,
          file_paths, results, json_text, result, cache_manager, now>>

\* the state of the processor, of a helper called on its own, of the cache
\* and the clock: the extractor has none of it
beyond_extractor == <<file_paths, results, json_text, result, cache_manager, now>>

NoBatch == file_paths = << >> /\ results = << >>

NoHelperCall == json_text = << >> /\ result = << >>

NoCache == cache_manager = << >>

NoClock == now = 0

NoRecord == [none |-> TRUE]

Init ==
    /\ model_manager \in Services
    /\ pc = "idle"
    /\ raw_text = << >>
    /\ rpd_data = NoRecord
    /\ calls = << >>
    /\ exception = ""
    /\ NoBatch /\ NoHelperCall /\ NoCache /\ NoClock

\* the except clause re-raising what it caught
HandlerReraise(e) ==
    /\ exception' = e
    /\ pc' = "raised"
    /\ UNCHANGED rpd_data

\* the except clause of extract_rpd_data: the message is recorded and the
\* record is returned as it stands
Handler(e) ==
    /\ rpd_data' = [rpd_data EXCEPT !.extraction_errors = Append(@, Err(e, 0))]
    /\ pc' = "returned"
    /\ UNCHANGED exception

\* lines 180-191: raw_text is read, an empty text raises, the record is created
Call ==
    /\ pc = "idle"
    /\ \E parsed_document \in ParsedDocuments :
         /\ raw_text' = Get(parsed_document, "raw_text", << >>)
         /\ IF Strip(raw_text') = << >>
            THEN /\ exception' = "ValueError"
                 /\ pc' = "raised"
                 /\ UNCHANGED <<rpd_data, calls>>
            ELSE /\ rpd_data' = RPDData
                 /\ calls' = <<Event("create", "", 0)>>
                 /\ pc' = "basic_info"
                 /\ UNCHANGED exception
    /\ UNCHANGED model_manager
    /\ UNCHANGED beyond_extractor

ExtractBasicInfo ==
    /\ pc = "basic_info"
    /\ LET r == _extract_basic_info(raw_text, model_manager)
           basic_info == r.out.val
       IN  IF r.out.raised
           THEN /\ Handler(r.out.exc)
                /\ calls' = calls \o r.calls
           ELSE /\ rpd_data' =
                     IF basic_info # << >>
                     THEN [rpd_data EXCEPT
                             !.subject_title = Get(basic_info, "subject_title", ""),
                             !.academic_degree = Get(basic_info, "academic_degree", "bachelor"),
                             !.profession = Get(basic_info, "profession", ""),
                             !.total_hours = Get(basic_info, "total_hours", 0),
                             !.department = Get(basic_info, "department", None),
                             !.faculty = Get(basic_info, "faculty", None),
                             !.year = Get(basic_info, "year", None),
                             !.semester = Get(basic_info, "semester", None)]
                     ELSE rpd_data
                /\ calls' = calls \o r.calls \o <<Event("merge", "basic_info", 0)>>
                /\ pc' = "lecture_themes"
                /\ UNCHANGED exception
    /\ UNCHANGED <<model_manager, raw_text>>
    /\ UNCHANGED beyond_extractor

\* a merge that builds the record anew around the group it merges
MergeListAnew(g, r, cls, field, next) ==
    LET built == IF r.out.raised THEN Raise(r.out.exc) ELSE ConstructAll(cls, r.out.val)
    IN  IF built.raised
        THEN /\ Handler(built.exc)
             /\ calls' = calls \o r.calls
        ELSE /\ rpd_data' = [RPDData EXCEPT ![field] = built.val]
             /\ calls' = calls \o r.calls \o <<Event("merge", g, 0)>>
             /\ pc' = next
             /\ UNCHANGED exception

\* a list group: the helper, then the entities built and assigned
MergeList(g, r, cls, field, next) ==
    LET built == IF r.out.raised THEN Raise(r.out.exc) ELSE ConstructAll(cls, r.out.val)
    IN  IF built.raised
        THEN /\ Handler(built.exc)
             /\ calls' = calls \o r.calls
        ELSE /\ rpd_data' = IF r.out.val # << >> THEN [rpd_data EXCEPT ![field] = built.val]
                            ELSE rpd_data
             /\ calls' = calls \o r.calls \o <<Event("merge", g, 0)>>
             /\ pc' = next
             /\ UNCHANGED exception

ExtractLectureThemes ==
    /\ pc = "lecture_themes"
    /\ MergeList("lecture_themes", _extract_lecture_themes(raw_text, model_manager),
                 LectureTheme, "lecture_themes", "lab_examples")
    /\ UNCHANGED <<model_manager, raw_text>>
    /\ UNCHANGED beyond_extractor

ExtractLabExamples ==
    /\ pc = "lab_examples"
    /\ MergeList("lab_examples", _extract_lab_examples(raw_text, model_manager),
                 LabExample, "lab_examples", "literature")
    /\ UNCHANGED <<model_manager, raw_text>>
    /\ UNCHANGED beyond_extractor

ExtractLiterature ==
    /\ pc = "literature"
    /\ MergeList("literature", _extract_literature(raw_text, model_manager),
                 LiteratureReference, "literature_references", "validate")
    /\ UNCHANGED <<model_manager, raw_text>>
    /\ UNCHANGED beyond_extractor

\* line 228, then the return
Validate ==
    /\ pc = "validate"
    /\ rpd_data' = _validate_rpd_data(rpd_data)
    /\ calls' = Append(calls, Event("validate", "", 0))
    /\ pc' = "returned"
    /\ UNCHANGED <<model_manager, raw_text, exception>>
    /\ UNCHANGED beyond_extractor

Next ==
    \/ Call
    \/ ExtractBasicInfo
    \/ ExtractLectureThemes
    \/ ExtractLabExamples
    \/ ExtractLiterature
    \/ Validate

Spec == Init /\ [][Next]_vars

(***************************************************************************)
(* Properties of extract_rpd_data                                          *)
(***************************************************************************)
\* a text that is empty or holds whitespace only
AllBlank(t) == \A i \in 1..Len(t) : t[i].kind = "blank"

CountOp(op) == Cardinality({i \in DOMAIN calls : calls[i].op = op})

Merged(g) == \E i \in DOMAIN calls : calls[i] = Event("merge", g, 0)

Recorded(msg) ==
    \E i \in DOMAIN rpd_data.extraction_errors : rpd_data.extraction_errors[i].msg = msg

\* the service is set, hands out a model, and the model answers with the
\* object obj alone or wrapped in prose
Answers(mm, obj) ==
    /\ mm.configured /\ mm.get_model = "ok" /\ mm.generate = "return"
    /\ mm.response \in {<<Ws, Obj(obj), Ws>>, <<Prose, Obj(obj), Prose>>}

\* the service is set and the model's answer holds no decodable object
AnswersNoJson(mm) ==
    /\ mm.configured /\ mm.get_model = "ok" /\ mm.generate = "return"
    /\ mm.response \in {<<Prose>>, <<Obj(GoodObject), Prose, Obj(GoodObject)>>}

ListField ==
    [lecture_themes |-> "lecture_themes", lab_examples |-> "lab_examples",
     literature |-> "literature_references"]

\* the record's basic fields are those of the dictionary d
BasicAgrees(d) ==
    /\ rpd_data.subject_title = d.subject_title
    /\ rpd_data.academic_degree = d.academic_degree
    /\ rpd_data.profession = d.profession
    /\ rpd_data.total_hours = d.total_hours

\* the entities are the dictionaries ds, item by item (hours apart, which
\* validation may correct)
ItemsAgree(entities, ds) ==
    /\ Len(entities) = Len(ds)
    /\ \A i \in 1..Len(ds) : \A k \in DOMAIN ds[i] \ {"hours"} : entities[i][k] = ds[i][k]

GroupAgrees(g, v) ==
    IF g = "basic_info" THEN BasicAgrees(v) ELSE ItemsAgree(rpd_data[ListField[g]], v)

\* group g of the record is what the fallback extracts from the text
GroupFromFallback(g) ==
    LET f == Fallback(g, raw_text) IN ~f.raised /\ GroupAgrees(g, f.val)

\* group g of the record is what its helper returned
GroupFromHelper(g) ==
    LET r == ExtractGroup(g, raw_text, model_manager).out
    IN  ~r.raised /\ Merged(g) /\ GroupAgrees(g, r.val)

\* C1: every result returned by extract_rpd_data has an extraction_confidence
\* set, and it lies between 0.1 and 1.0 (1 to 10 tenths).
C1_ConfidenceInRange ==
    pc = "returned" =>
        /\ rpd_data.extraction_confidence # None
        /\ rpd_data.extraction_confidence[1] \in 1..10

\* C2: when a service is set and the model answers with a JSON object holding
\* subject_title, academic_degree, profession and total_hours, the returned
\* result carries the response's values (the degree when it is a valid one).
C2_ResponseValuesReturned ==
    \A obj \in {GoodObject, OddObject} :
        (pc = "returned" /\ Answers(model_manager, obj)) =>
            /\ rpd_data.subject_title = obj.subject_title
            /\ rpd_data.profession = obj.profession
            /\ rpd_data.total_hours = obj.total_hours
            /\ (obj.academic_degree \in {"bachelor", "master", "phd"}
                    => rpd_data.academic_degree = obj.academic_degree)

\* C3: when one decoded item of a group cannot be built into its entity, the
\* error is appended to extraction_errors and only that item is skipped: the
\* other items of the group are kept, the remaining groups are extracted and
\* merged, and the validator still runs.
C3_BadItemSkipped ==
    (pc = "returned" /\ Answers(model_manager, OddObject)) =>
        LET kept == SelectSeq(OddObject.lecture_themes,
                              LAMBDA d : ~Construct(LectureTheme, d).raised)
        IN  /\ Recorded("TypeError")
            /\ ItemsAgree(rpd_data.lecture_themes, kept)
            /\ \A g \in Groups : Merged(g)
            /\ CountOp("validate") = 1

\* C4: when a service is set and its response cannot be parsed as a JSON
\* object, every group of the returned result is the output of the fallback
\* extractor on the same raw_text.
C4_NullParseFallsBack ==
    (pc = "returned" /\ AnswersNoJson(model_manager)) =>
        \A g \in Groups : GroupFromFallback(g)

\* C5: when the service path of a group raises, the exception does not leave
\* the group's helper, the group's merged result is the fallback's output on
\* the same raw_text, and the other three groups are merged as they would be
\* had that group not failed.
C5_ServiceFailureIsolated ==
    (pc = "returned" /\ model_manager.configured) =>
        \A g \in Groups :
            ModelPath(g, raw_text, model_manager).out.raised =>
                /\ ~ExtractGroup(g, raw_text, model_manager).out.raised
                /\ Merged(g) /\ GroupFromFallback(g)
                /\ \A h \in Groups \ {g} : GroupFromHelper(h)

\* C6: a call whose raw_text is missing, empty or whitespace only raises
\* ValueError before a record exists and before any extraction runs.
C6_EmptyTextRaises ==
    (pc # "idle" /\ AllBlank(raw_text)) =>
        /\ pc = "raised"
        /\ exception = "ValueError"
        /\ rpd_data = NoRecord
        /\ calls = << >>

\* a whitespace-only text of two lines was refused
C6_Witness == pc = "raised" /\ exception = "ValueError" /\ Len(raw_text) = 2

\* how far the call has come
Rank ==
    [idle |-> 0, basic_info |-> 1, lecture_themes |-> 2, lab_examples |-> 3,
     literature |-> 4, validate |-> 5, returned |-> 6, raised |-> 6]

\* C7: a call on a text that is not empty after trimming never raises: every
\* step takes it forward, and it ends by returning a record, whatever the
\* service does; the empty text is the only case that raises.
C7_NeverPropagates ==
    /\ [](/\ (pc = "raised" \/ exception # "") => AllBlank(raw_text)
          /\ pc = "returned" =>
                (~AllBlank(raw_text) /\ rpd_data # NoRecord /\ exception = ""))
    /\ [][/\ Rank[pc'] > Rank[pc]
          /\ ~AllBlank(raw_text') => pc' # "raised"]_vars

\* the service raised, the fallback raised after it, and a record was returned
C7_Witness ==
    /\ pc = "returned"
    /\ model_manager.get_model = "raise"
    /\ Recorded("ValueError")

\* C8: in every call that returns, the validator runs exactly once, after the
\* four groups have been merged.
C8_ValidatedOnceAfterMerges ==
    pc = "returned" =>
        /\ CountOp("validate") = 1
        /\ \A g \in Groups : Merged(g)
        /\ calls[Len(calls)].op = "validate"

\* C9: the academic_degree of every returned result is one of bachelor,
\* master, phd.
C9_DegreeInEnumeration ==
    pc = "returned" => rpd_data.academic_degree \in {"bachelor", "master", "phd"}

\* a result whose degree was extracted from the text, not left at the default
C9_Witness ==
    /\ pc = "returned"
    /\ Merged("basic_info")
    /\ rpd_data.academic_degree = "master"

\* C10: every lecture theme of a returned result has hours above zero, and a
\* theme extracted with hours of zero or less is returned with hours 2.
C10_ThemeHoursPositive ==
    pc = "returned" =>
        /\ \A i \in DOMAIN rpd_data.lecture_themes : rpd_data.lecture_themes[i].hours > 0
        /\ CountOp("validate") = 1 =>
             LET extracted == _extract_lecture_themes(raw_text, model_manager).out.val
             IN  \A i \in DOMAIN extracted :
                    rpd_data.lecture_themes[i].hours =
                        IF extracted[i].hours <= 0 THEN 2 ELSE extracted[i].hours

\* a theme extracted with zero hours was returned with two
C10_Witness ==
    /\ pc = "returned"
    /\ CountOp("validate") = 1
    /\ \E i \in DOMAIN rpd_data.lecture_themes :
         /\ _extract_lecture_themes(raw_text, model_manager).out.val[i].hours = 0
         /\ rpd_data.lecture_themes[i].hours = 2

(***************************************************************************)
(* The validator and the completeness scorer applied to a record, as the   *)
(* extractor's tests and the processor apply them                          *)
(***************************************************************************)
\* Longest list of lecture themes of a record given to the validator.
MaxThemes == 2

\* Longest list of themes, references or labs of a record given to the scorer.
MaxItems == 6

\* Validation passes made over one record.
MaxPasses == 2

\* Errors appended to one record from outside the validator.
MaxAppends == 1

Min(a, b) == IF a <= b THEN a ELSE b

Repeat(x, n) == [i \in 1..n |-> x]

Theme(title, hours) ==
    Construct(LectureTheme, [title |-> title, order |-> 1, hours |-> hours]).val

Lab == Construct(LabExample, [title |-> "Praktikum", description |-> "Zadachi"]).val

Reference == Construct(LiteratureReference, [authors |-> "Petrov P", title |-> "Analiz"]).val

Themes == {Theme(title, hours) : title \in {"", "Predely"}, hours \in {0, 4}}

\* RPDData(subject_title=..., academic_degree=..., profession=..., total_hours=...)
Basics ==
    {[RPDData EXCEPT !.subject_title = st, !.academic_degree = d,
                     !.profession = pr, !.total_hours = h] :
        st \in {"", " ", "Algebra"}, d \in {"phd", "specialist"},
        pr \in {"", "Matematika"}, h \in {0, 72}}

\* records as the validator's test builds them, some holding an earlier error
ValidationRecords ==
    {[b EXCEPT !.lecture_themes = ths, !.lab_examples = <<Lab>>,
               !.literature_references = <<Reference>>, !.extraction_errors = errs] :
        b \in Basics, ths \in SeqsUpTo(Themes, MaxThemes),
        errs \in {<< >>, <<Err("ValueError", 0)>>}}

\* records with every basic field given or none, and lists of every length,
\* the themes all sound or all faulty
ScoringRecords ==
    {[b EXCEPT !.lecture_themes = Repeat(th, n),
               !.literature_references = Repeat(Reference, m),
               !.lab_examples = Repeat(Lab, k)] :
        b \in {[RPDData EXCEPT !.subject_title = "Algebra", !.profession = "Matematika",
                               !.total_hours = 72],
               [RPDData EXCEPT !.academic_degree = "specialist"]},
        th \in {Theme("Predely", 4), Theme("", 0)},
        n \in 0..MaxItems, m \in 0..MaxItems, k \in 0..MaxItems}

Records == ValidationRecords \cup ScoringRecords

\* processor.py, line 6: from typing import Dict, Any, Optional, Union
TypingImports == {"Dict", "Any", "Optional", "Union"}

\* the names bound in processor.py when the class body runs: the imports of
\* lines 5-11 and the builtins
ModuleNames ==
    TypingImports \cup {"logging", "Path", "datetime", "parse_rpd_document", "RPDParsingError",
                        "RPDDataExtractor", "RPDData", "logger", "RPDProcessingError",
                        "str", "float"}

\* the names in the annotations of RPDProcessor's methods
AnnotationNames == {"Union", "str", "Path", "Dict", "Any", "RPDData", "float", "List"}

\* annotations are evaluated when the def statement runs (CPython up to
\* 3.13) or left unevaluated (CPython 3.14)
AnnotationEvaluation == {"eager", "deferred"}

\* the class statement of RPDProcessor
RPDProcessor(evaluation) ==
    IF evaluation = "eager" /\ ~(AnnotationNames \subseteq ModuleNames)
    THEN Raise("NameError")
    ELSE Ok("RPDProcessor")

\* the score in 150ths: a point is 15, so that len/5*3, len/5*2 and len/3
\* are whole; min(1.0, score / 10) is Min(150, score)
_calculate_completeness_score(rpd) ==
    LET score ==
            (IF rpd.subject_title # "" THEN 15 ELSE 0)
            + (IF rpd.profession # "" THEN 15 ELSE 0)
            + (IF rpd.total_hours > 0 THEN 15 ELSE 0)
            + (IF rpd.academic_degree \in {"bachelor", "master", "phd"} THEN 15 ELSE 0)
            + (IF rpd.lecture_themes # << >>
               THEN Min(45, 9 * Len(rpd.lecture_themes)) ELSE 0)
            + (IF rpd.literature_references # << >>
               THEN Min(30, 6 * Len(rpd.literature_references)) ELSE 0)
            + (IF rpd.lab_examples # << >>
               THEN Min(15, 5 * Len(rpd.lab_examples)) ELSE 0)
    IN  Min(150, score)

Done(op) == Len(SelectSeq(calls, LAMBDA ev : ev.op = op))

InitRecord ==
    /\ model_manager = NoService
    /\ pc = "record"
    /\ raw_text = << >>
    /\ rpd_data \in Records
    /\ calls = << >>
    /\ exception = ""
    /\ NoBatch /\ NoHelperCall /\ NoCache /\ NoClock

\* extractor._validate_rpd_data(rpd_data)
ValidatePass ==
    /\ pc = "record"
    /\ Done("validate") < MaxPasses
    /\ rpd_data' = _validate_rpd_data(rpd_data)
    /\ calls' = Append(calls, Event("validate", "", 0))
    /\ UNCHANGED <<model_manager, pc, raw_text, exception>>
    /\ UNCHANGED beyond_extractor

\* rpd_data.extraction_errors.append(str(e))
AppendError ==
    /\ pc = "record"
    /\ Done("append") < MaxAppends
    /\ rpd_data' = [rpd_data EXCEPT !.extraction_errors = Append(@, Err("ValueError", 0))]
    /\ calls' = Append(calls, Event("append", "", 0))
    /\ UNCHANGED <<model_manager, pc, raw_text, exception>>
    /\ UNCHANGED beyond_extractor

\* the caller imports the processor and asks for the record's score
CompletenessScore ==
    /\ pc = "record"
    /\ \E evaluation \in AnnotationEvaluation :
         IF RPDProcessor(evaluation).raised
         THEN /\ exception' = RPDProcessor(evaluation).exc
              /\ pc' = "raised"
              /\ UNCHANGED calls
         ELSE /\ calls' = Append(calls, Event("completeness", "",
                                             _calculate_completeness_score(rpd_data)))
              /\ pc' = "scored"
              /\ UNCHANGED exception
    /\ UNCHANGED <<model_manager, raw_text, rpd_data>>
    /\ UNCHANGED beyond_extractor

NextRecord ==
    \/ ValidatePass
    \/ AppendError
    \/ CompletenessScore

SpecRecord == InitRecord /\ [][NextRecord]_vars

(***************************************************************************)
(* Properties of the validator and the scorer                              *)
(***************************************************************************)
\* the step is a validation pass
IsPass == calls' = Append(calls, Event("validate", "", 0))

Blank(str) == str = "" \/ str = " "

B2N(b) == IF b THEN 1 ELSE 0

RECURSIVE Sum(_)
Sum(ns) == IF ns = << >> THEN 0 ELSE Head(ns) + Sum(Tail(ns))

\* the checks of one pass that the record fails
FailedChecks(rpd) ==
    B2N(Blank(rpd.subject_title)) + B2N(Blank(rpd.profession)) + B2N(rpd.total_hours <= 0)
    + B2N(rpd.academic_degree \notin {"bachelor", "master", "phd"})
    + Sum([i \in 1..Len(rpd.lecture_themes) |->
             B2N(Blank(rpd.lecture_themes[i].title)) + B2N(rpd.lecture_themes[i].hours <= 0)])

\* C11: after a validation pass the confidence is max(0.1, 1.0 - 0.1 * n), in
\* tenths max(1, 10 - n), n being the checks the record failed in that pass,
\* whatever extraction_errors held before the pass.
C11_ConfidenceCountsThisPass ==
    [][IsPass =>
         LET n == FailedChecks(rpd_data)
         IN  /\ rpd_data'.extraction_confidence = <<IF 10 - n >= 1 THEN 10 - n ELSE 1>>
             /\ Len(rpd_data'.extraction_errors) = Len(rpd_data.extraction_errors) + n]_vars

\* a record that held one earlier error and failed two checks: confidence 0.8
C11_Witness ==
    /\ Done("validate") = 1 /\ Done("append") = 0
    /\ Len(rpd_data.extraction_errors) = 3
    /\ rpd_data.extraction_confidence = <<8>>

\* the warnings that tell of a correction
IsCorrection(err) ==
    err.msg \in {"Invalid academic degree, defaulted to 'bachelor'",
                 "Lecture theme hours corrected to 2.0"}

Corrections(errs) == Len(SelectSeq(errs, IsCorrection))

\* C12: a validation pass over an already validated record leaves
\* academic_degree and the hours of every lecture theme as they are and
\* appends no degree-correction or hours-correction warning.
C12_SecondPassCorrectsNothing ==
    [][(IsPass /\ Done("validate") >= 1) =>
         /\ rpd_data'.academic_degree = rpd_data.academic_degree
         /\ \A i \in DOMAIN rpd_data.lecture_themes :
              rpd_data'.lecture_themes[i].hours = rpd_data.lecture_themes[i].hours
         /\ Corrections(rpd_data'.extraction_errors) = Corrections(rpd_data.extraction_errors)]_vars

\* validated twice, the record holds the degree correction and the hours
\* correction of the first pass once each
C12_Witness ==
    /\ Done("validate") = 2
    /\ Len(rpd_data.lecture_themes) = 1
    /\ Corrections(rpd_data.extraction_errors) = 2
    /\ rpd_data.academic_degree = "bachelor"
    /\ rpd_data.lecture_themes[1].hours = 2

\* C13: once extraction_confidence is set, no later step on the record
\* (an error appended, a validation pass) makes it larger than it was.
C13_ConfidenceNeverGrows ==
    [][rpd_data.extraction_confidence # None =>
         /\ rpd_data'.extraction_confidence # None
         /\ rpd_data'.extraction_confidence[1] <= rpd_data.extraction_confidence[1]]_vars

IsPrefix(a, b) == Len(a) <= Len(b) /\ SubSeq(b, 1, Len(a)) = a

\* C14: extraction_errors is append-only: after every step on a record what
\* the list held before is a prefix of what it holds after; no step clears,
\* removes, reorders or rewrites an entry.
C14_ErrorsAppendOnly ==
    [][(rpd_data # NoRecord /\ rpd_data' # NoRecord) =>
         IsPrefix(rpd_data.extraction_errors, rpd_data'.extraction_errors)]_vars

\* two passes and an appended error have each added to a list that already
\* held entries
C14_Witness ==
    /\ Done("validate") = 2 /\ Done("append") = 1
    /\ Len(rpd_data.extraction_errors) >= 4
    /\ calls[2].op = "append"

(***************************************************************************)
(* Further properties of extract_rpd_data                                  *)
(***************************************************************************)
\* what the service path raises: get_llm_model, the prompt's rendering, generate
ServiceExceptions == {"ModelError", "KeyError", "GenerateError"}

ValidatorMessages ==
    {"Subject title is required", "Profession/direction is required",
     "Total hours must be positive", "Invalid academic degree, defaulted to 'bachelor'",
     "Lecture theme has empty title", "Lecture theme hours corrected to 2.0"}

\* the service path of group g failed and the fallback made up for it
Recovered(g) ==
    /\ model_manager.configured
    /\ ModelPath(g, raw_text, model_manager).out.raised
    /\ ~ExtractGroup(g, raw_text, model_manager).out.raised

C16_FallbackOnlyWithoutService ==
    (rpd_data # NoRecord /\ ~model_manager.configured) =>
        /\ \A i \in DOMAIN calls : calls[i].op \notin {"get_llm_model", "generate", "parse"}
        /\ pc = "returned" => \A g \in Groups : GroupFromFallback(g)

\* the fields of a record that no validation pass may write
FrameFields ==
    {"subject_title", "profession", "total_hours", "department", "faculty", "year",
     "semester", "lab_examples", "literature_references"}

\* C17: a validation pass changes only academic_degree when it is not a valid
\* degree, the hours of themes whose hours are zero or less, the confidence
\* and the errors; subject_title, profession, total_hours, the themes' titles
\* and order, the labs and the references stay as they are, also when they
\* cause a warning.
C17_PassWritesCorrectionsOnly ==
    [][IsPass =>
         /\ \A f \in FrameFields : rpd_data'[f] = rpd_data[f]
         /\ rpd_data.academic_degree \in {"bachelor", "master", "phd"}
              => rpd_data'.academic_degree = rpd_data.academic_degree
         /\ Len(rpd_data'.lecture_themes) = Len(rpd_data.lecture_themes)
         /\ \A i \in DOMAIN rpd_data.lecture_themes :
              LET old == rpd_data.lecture_themes[i]
                  new == rpd_data'.lecture_themes[i]
              IN  /\ new.title = old.title
                  /\ new.order = old.order
                  /\ new.description = old.description
                  /\ old.hours > 0 => new.hours = old.hours]_vars

\* validated, the record still has its blank title, empty profession, zero
\* hours and a theme without a title, each of which caused a warning
C17_Witness ==
    /\ Done("validate") = 1 /\ Done("append") = 0
    /\ rpd_data.subject_title = " "
    /\ rpd_data.profession = ""
    /\ rpd_data.total_hours = 0
    /\ Len(rpd_data.lecture_themes) = 1
    /\ rpd_data.lecture_themes[1].title = ""
    /\ rpd_data.lab_examples # << >>
    /\ Len(rpd_data.extraction_errors) >= 4

\* the rubric in 150ths of the full score: 15 for each basic field credited,
\* up to 45 for the themes, 30 for the references and 15 for the labs
Rubric(rpd) ==
    LET P == 15 * (B2N(rpd.subject_title # "") + B2N(rpd.profession # "")
                   + B2N(rpd.total_hours > 0)
                   + B2N(rpd.academic_degree \in {"bachelor", "master", "phd"}))
             + Min(45, 9 * Len(rpd.lecture_themes))
             + Min(30, 6 * Len(rpd.literature_references))
             + Min(15, 5 * Len(rpd.lab_examples))
    IN  IF P <= 150 THEN P ELSE 150

FullCredit(rpd) ==
    /\ rpd.subject_title # "" /\ rpd.profession # "" /\ rpd.total_hours > 0
    /\ rpd.academic_degree \in {"bachelor", "master", "phd"}
    /\ Len(rpd.lecture_themes) >= 5 /\ Len(rpd.literature_references) >= 5
    /\ Len(rpd.lab_examples) >= 3

\* the score the caller was given is the rubric's
ScoreIsRubric ==
    LET score == calls[Len(calls)].arg
    IN  /\ calls[Len(calls)].op = "completeness"
        /\ score = Rubric(rpd_data)
        /\ score \in 0..150
        /\ FullCredit(rpd_data) => score = 150

\* C18: for every record the caller asks the score of, the score is
\* min(1, P/10) for the rubric's points P; it lies between 0 and 1 and is 1.0
\* for a record with the four basic fields, five themes, five references and
\* three labs.
C18_ScoreIsRubric ==
    pc \in {"scored", "raised"} => (pc = "scored" /\ ScoreIsRubric)

(***************************************************************************)
(* Several extract_rpd_data calls on one extractor, interleaved at their   *)
(* awaits                                                                  *)
(***************************************************************************)
\* Calls in flight on the one extractor.
NumCalls == 2

CallIds == 1..NumCalls

\* the documents given to the calls: an empty one, one whose theme has zero
\* hours, one whose theme number int() refuses, one naming a degree
SampleTexts ==
    { <<Line("blank", Zero, None)>>,
      <<Line("title", Zero, None), Line("tema", One, Some(Zero))>>,
      <<Line("tema", Huge, None), Line("lab", Zero, None)>>,
      <<Line("master", Zero, None), Line("lab", Zero, None)>> }

SampleDocuments == {<< >>} \cup {[raw_text |-> t] : t \in SampleTexts}

\* the locals of one call: where it stands, raw_text, rpd_data, what it has
\* run, what it raised
Local(p, t, r, cs, e) ==
    [pc |-> p, raw_text |-> t, rpd_data |-> r, calls |-> cs, exception |-> e]

\* lines 180-191
Start(parsed_document) ==
    LET t == Get(parsed_document, "raw_text", << >>)
    IN  IF Strip(t) = << >>
        THEN Local("raised", t, NoRecord, << >>, "ValueError")
        ELSE Local("basic_info", t, RPDData, <<Event("create", "", 0)>>, "")

\* lines 230-232
Caught(l, e, cs) ==
    [l EXCEPT !.rpd_data = [@ EXCEPT !.extraction_errors = Append(@, Err(e, 0))],
              !.calls = @ \o cs,
              !.pc = "returned"]

\* lines 194-206
AdvanceBasicInfo(l, mm) ==
    LET r == _extract_basic_info(l.raw_text, mm)
        basic_info == r.out.val
    IN  IF r.out.raised THEN Caught(l, r.out.exc, r.calls)
        ELSE [l EXCEPT
                !.rpd_data =
                    IF basic_info # << >>
                    THEN [@ EXCEPT
                            !.subject_title = Get(basic_info, "subject_title", ""),
                            !.academic_degree = Get(basic_info, "academic_degree", "bachelor"),
                            !.profession = Get(basic_info, "profession", ""),
                            !.total_hours = Get(basic_info, "total_hours", 0),
                            !.department = Get(basic_info, "department", None),
                            !.faculty = Get(basic_info, "faculty", None),
                            !.year = Get(basic_info, "year", None),
                            !.semester = Get(basic_info, "semester", None)]
                    ELSE @,
                !.calls = @ \o r.calls \o <<Event("merge", "basic_info", 0)>>,
                !.pc = "lecture_themes"]

\* lines 208-225, one list group
AdvanceList(l, g, r, cls, field, next) ==
    LET built == IF r.out.raised THEN Raise(r.out.exc) ELSE ConstructAll(cls, r.out.val)
    IN  IF built.raised THEN Caught(l, built.exc, r.calls)
        ELSE [l EXCEPT
                !.rpd_data = IF r.out.val # << >> THEN [@ EXCEPT ![field] = built.val] ELSE @,
                !.calls = @ \o r.calls \o <<Event("merge", g, 0)>>,
                !.pc = next]

\* the call's next step, from one await to the next
Advance(l, mm) ==
    CASE l.pc = "basic_info" -> AdvanceBasicInfo(l, mm)
      [] l.pc = "lecture_themes" ->
            AdvanceList(l, "lecture_themes", _extract_lecture_themes(l.raw_text, mm),
                        LectureTheme, "lecture_themes", "lab_examples")
      [] l.pc = "lab_examples" ->
            AdvanceList(l, "lab_examples", _extract_lab_examples(l.raw_text, mm),
                        LabExample, "lab_examples", "literature")
      [] l.pc = "literature" ->
            AdvanceList(l, "literature", _extract_literature(l.raw_text, mm),
                        LiteratureReference, "literature_references", "validate")
      [] l.pc = "validate" ->
            [l EXCEPT !.rpd_data = _validate_rpd_data(@),
                      !.calls = Append(@, Event("validate", "", 0)),
                      !.pc = "returned"]

\* the record of every call kept in one attribute of the extractor
SharedRecord(c) == 1

\* rpd_data is a local of the call: each call has its own
RecordOf(c) == c

LocalOf(c) == Local(pc[c], raw_text[c], rpd_data[RecordOf(c)], calls[c], exception[c])

InitConcurrent ==
    /\ model_manager \in Services
    /\ pc = [c \in CallIds |-> "idle"]
    /\ raw_text = [c \in CallIds |-> << >>]
    /\ rpd_data = [c \in CallIds |-> NoRecord]
    /\ calls = [c \in CallIds |-> << >>]
    /\ exception = [c \in CallIds |-> ""]
    /\ NoBatch /\ NoHelperCall /\ NoCache /\ NoClock

\* the call's locals after its step; the record only where the call has one
Install(c, l) ==
    /\ pc' = [pc EXCEPT ![c] = l.pc]
    /\ raw_text' = [raw_text EXCEPT ![c] = l.raw_text]
    /\ calls' = [calls EXCEPT ![c] = l.calls]
    /\ exception' = [exception EXCEPT ![c] = l.exception]
    /\ IF l.rpd_data = NoRecord THEN UNCHANGED rpd_data
       ELSE rpd_data' = [rpd_data EXCEPT ![RecordOf(c)] = l.rpd_data]
    /\ UNCHANGED model_manager
    /\ UNCHANGED beyond_extractor

StartCall(c) ==
    /\ pc[c] = "idle"
    /\ \E parsed_document \in SampleDocuments : Install(c, Start(parsed_document))

BasicInfoStep(c) ==
    /\ pc[c] = "basic_info"
    /\ Install(c, Advance(LocalOf(c), model_manager))

LectureThemesStep(c) ==
    /\ pc[c] = "lecture_themes"
    /\ Install(c, Advance(LocalOf(c), model_manager))

LabExamplesStep(c) ==
    /\ pc[c] = "lab_examples"
    /\ Install(c, Advance(LocalOf(c), model_manager))

LiteratureStep(c) ==
    /\ pc[c] = "literature"
    /\ Install(c, Advance(LocalOf(c), model_manager))

ValidateStep(c) ==
    /\ pc[c] = "validate"
    /\ Install(c, Advance(LocalOf(c), model_manager))

NextConcurrent ==
    \E c \in CallIds :
        \/ StartCall(c)
        \/ BasicInfoStep(c)
        \/ LectureThemesStep(c)
        \/ LabExamplesStep(c)
        \/ LiteratureStep(c)
        \/ ValidateStep(c)

SpecConcurrent == InitConcurrent /\ [][NextConcurrent]_vars

(***************************************************************************)
(* Properties of concurrent calls                                          *)
(***************************************************************************)
\* a call run from its start to its end with nothing else running
RECURSIVE Run(_, _)
Run(l, mm) == IF l.pc \in {"returned", "raised"} THEN l ELSE Run(Advance(l, mm), mm)

\* what call c gives when it is the only call
Alone(c) == Run(Start([raw_text |-> raw_text[c]]), model_manager)

\* C19: calls running concurrently on one extractor, interleaved at any await,
\* each end as they end when run alone against the same service, with the
\* same result; a step of one call leaves the record and the locals of every
\* other call as they are.
C19_CallsShareNothing ==
    /\ [](\A c \in CallIds :
            /\ pc[c] = "returned" =>
                 /\ Alone(c).pc = "returned"
                 /\ rpd_data[RecordOf(c)] = Alone(c).rpd_data
            /\ pc[c] = "raised" =>
                 /\ Alone(c).pc = "raised"
                 /\ exception[c] = Alone(c).exception
                 /\ rpd_data[c] = NoRecord)
    /\ [][\A c \in CallIds : \A d \in CallIds \ {c} :
            pc'[c] # pc[c] =>
                /\ rpd_data'[d] = rpd_data[d]
                /\ pc'[d] = pc[d] /\ raw_text'[d] = raw_text[d]
                /\ calls'[d] = calls[d] /\ exception'[d] = exception[d]]_vars

\* one call has returned its themes while another, on another document, is
\* between its awaits
C19_Witness ==
    /\ pc[1] = "returned" /\ pc[2] = "lab_examples"
    /\ raw_text[1] # raw_text[2]
    /\ rpd_data[1].lecture_themes # << >>
    /\ rpd_data[2].academic_degree = "master"

(***************************************************************************)
(* Properties of the four branches of one call                             *)
(***************************************************************************)
\* the fields of the record that belong to each group
GroupFields ==
    [basic_info |-> {"subject_title", "academic_degree", "profession", "total_hours",
                     "department", "faculty", "year", "semester"},
     lecture_themes |-> {"lecture_themes"},
     lab_examples |-> {"lab_examples"},
     literature |-> {"literature_references"}]

\* what the step has run
NewEvents == SubSeq(calls', Len(calls) + 1, Len(calls'))

\* the step of a group: its branch runs first and alone; the record is
\* written by the merge that follows, in the group's fields only, or by the
\* handler that appends the error of a failed branch
BranchStep ==
    /\ NewEvents # << >>
    /\ \A i \in DOMAIN NewEvents : NewEvents[i].group = pc
    /\ \A i \in 1..(Len(NewEvents) - 1) : NewEvents[i].op # "merge"
    /\ NewEvents[1].op \in {"fallback", "get_llm_model"}
    /\ IF NewEvents[Len(NewEvents)].op = "merge"
       THEN /\ Len(NewEvents) >= 2
            /\ \A f \in DOMAIN RPDData \ GroupFields[pc] : rpd_data'[f] = rpd_data[f]
       ELSE /\ pc' = "returned"
            /\ \A f \in DOMAIN RPDData \ {"extraction_errors"} : rpd_data'[f] = rpd_data[f]
            /\ Len(rpd_data'.extraction_errors) = Len(rpd_data.extraction_errors) + 1

\* C20: the four branches of a call share nothing: a merged group stays what
\* its own branch produced from raw_text and the service, whatever the other
\* branches do; the step of a group writes the record only in a merge that
\* follows the group's branch and touches the group's fields alone, or, when
\* the branch failed, in the handler that appends the error.
C20_BranchesShareNothing ==
    /\ [](\A g \in Groups : (pc \notin {"idle", "raised"} /\ Merged(g)) => GroupFromHelper(g))
    /\ [][(pc \in Groups) => BranchStep]_vars

\* the themes were merged into a record that keeps the title merged before
C20_Witness ==
    /\ pc = "lab_examples"
    /\ rpd_data.subject_title # ""
    /\ rpd_data.lecture_themes # << >>

(***************************************************************************)
(* The processor of app/rpd/processor.py: parse, extract, check            *)
(* completeness, one file after another.  The results' processing_start,   *)
(* processing_end and processing_time_seconds are clock readings and are   *)
(* left out.                                                               *)
(***************************************************************************)
\* how many paths one call is given
MaxFiles == 2

\* a file behind a path: what the parser finds there
File(path, kind, parsed) == [file_path |-> path, kind |-> kind, parsed_data |-> parsed]

\* a path with no file, a file of no supported type, and documents that parse:
\* one without a raw_text key and one for each sample text
Files ==
    { File("missing.pdf", "missing", << >>),
      File("notes.txt", "unknown", << >>),
      File("nokey.pdf", "document", << >>),
      File("blank.pdf", "document", [raw_text |-> <<Line("blank", Zero, None)>>]),
      File("zero.pdf", "document",
           [raw_text |-> <<Line("title", Zero, None), Line("tema", One, Some(Zero))>>]),
      File("huge.pdf", "document",
           [raw_text |-> <<Line("tema", Huge, None), Line("lab", Zero, None)>>]),
      File("master.pdf", "document",
           [raw_text |-> <<Line("master", Zero, None), Line("lab", Zero, None)>>]) }

\* parsers.parse_rpd_document: the factory refuses an unknown type, the parser
\* a missing file
parse_rpd_document(file) ==
    IF file.kind \in {"missing", "unknown"} THEN Raise("RPDParsingError")
    ELSE Ok(file.parsed_data)

\* extractor.extract_rpd_data, from its call to its return or raise
extract_rpd_data(parsed_document, mm) == Run(Start(parsed_document), mm)

\* asdict(rpd_data)
to_dict(rpd) == rpd

\* the warnings of the completeness check, with the score it computes
_validate_completeness(rpd) ==
    LET few(n, what) == IF n = 0 THEN <<Err("No " \o what \o " found", 0)>>
                        ELSE IF n < 3 THEN <<Err("Only N " \o what \o " found (expected 3+)", n)>>
                        ELSE << >>
        confidence == rpd.extraction_confidence
    IN  [warnings |->
             (IF rpd.subject_title = "" THEN <<Err("Subject title not found", 0)>> ELSE << >>)
          \o (IF rpd.profession = "" THEN <<Err("Profession/direction not found", 0)>> ELSE << >>)
          \o (IF rpd.total_hours <= 0 THEN <<Err("Total hours not found or invalid", 0)>>
              ELSE << >>)
          \o few(Len(rpd.lecture_themes), "lecture themes")
          \o few(Len(rpd.literature_references), "literature references")
          \o (IF confidence # None /\ confidence[1] # 0 /\ confidence[1] < 7
              THEN <<Err("Low extraction confidence", confidence[1])>> ELSE << >>)
          \o [i \in 1..Len(rpd.extraction_errors) |->
                Err("Extraction error: " \o rpd.extraction_errors[i].msg,
                    rpd.extraction_errors[i].idx)],
         completeness_score |-> _calculate_completeness_score(rpd)]

\* process_rpd_file: the result dictionary of one file
process_rpd_file(file, mm) ==
    LET parsed == parse_rpd_document(file)
        call == extract_rpd_data(parsed.val, mm)
        failure(msg, pd) ==
            [file_path |-> file.file_path, success |-> FALSE, errors |-> <<msg>>,
             warnings |-> << >>, parsed_data |-> pd, extracted_data |-> None]
    IN  IF parsed.raised THEN failure("RPD parsing failed", None)
        ELSE IF call.pc = "raised" THEN failure("RPD processing failed", Some(parsed.val))
        ELSE [file_path |-> file.file_path, success |-> TRUE, errors |-> << >>,
              warnings |-> _validate_completeness(call.rpd_data).warnings,
              parsed_data |-> Some(parsed.val),
              extracted_data |-> Some(to_dict(call.rpd_data))]

InitBatch ==
    /\ model_manager \in Services
    /\ pc = "start"
    /\ raw_text = << >>
    /\ rpd_data = NoRecord
    /\ calls = << >>
    /\ exception = ""
    /\ NoBatch /\ NoHelperCall /\ NoCache /\ NoClock

batch_frame == <<model_manager, raw_text, rpd_data, calls, json_text, result, cache_manager, now>>

\* the caller imports app.rpd.processor: the class body evaluates the
\* annotations of its methods, or defers them
ImportProcessor ==
    /\ pc = "start"
    /\ \E evaluation \in AnnotationEvaluation :
         IF RPDProcessor(evaluation).raised
         THEN /\ exception' = RPDProcessor(evaluation).exc
              /\ pc' = "raised"
         ELSE /\ pc' = "imported"
              /\ UNCHANGED exception
    /\ UNCHANGED <<file_paths, results>>
    /\ UNCHANGED batch_frame

\* process_multiple_rpd_files(file_paths): results = []
ProcessMultiple ==
    /\ pc = "imported"
    /\ \E paths \in SeqsUpTo(Files, MaxFiles) : file_paths' = paths
    /\ results' = << >>
    /\ pc' = "loop"
    /\ UNCHANGED exception
    /\ UNCHANGED batch_frame

\* the loop's body: the next path is processed and its result appended
ProcessFile ==
    /\ pc = "loop"
    /\ Len(results) < Len(file_paths)
    /\ results' = Append(results, process_rpd_file(file_paths[Len(results) + 1], model_manager))
    /\ UNCHANGED <<pc, exception, file_paths>>
    /\ UNCHANGED batch_frame

\* return results
ReturnResults ==
    /\ pc = "loop"
    /\ Len(results) = Len(file_paths)
    /\ pc' = "returned"
    /\ UNCHANGED <<exception, file_paths, results>>
    /\ UNCHANGED batch_frame

NextBatch ==
    \/ ImportProcessor
    \/ ProcessMultiple
    \/ ProcessFile
    \/ ReturnResults

SpecBatch == InitBatch /\ [][NextBatch]_vars

(***************************************************************************)
(* Properties of the processor                                             *)
(***************************************************************************)
\* the handler of extract_rpd_data recorded what a field group raised
GroupRaised(rpd) ==
    \E i \in DOMAIN rpd.extraction_errors : rpd.extraction_errors[i].msg \notin ValidatorMessages

\* parsing or extraction of the file fails
FailsAlone(file, mm) ==
    \/ parse_rpd_document(file).raised
    \/ LET call == extract_rpd_data(parse_rpd_document(file).val, mm)
       IN  call.pc = "raised" \/ GroupRaised(call.rpd_data)

\* C21: process_multiple_rpd_files returns one entry per path, in the order of
\* the paths; the entry of a document whose parsing or extraction fails has
\* success False and an error, and every entry is what the document gives
\* when it is processed alone.
C21_OneEntryPerPath ==
    pc \in {"returned", "raised"} =>
        /\ pc = "returned"
        /\ Len(results) = Len(file_paths)
        /\ \A i \in DOMAIN results :
             /\ results[i].file_path = file_paths[i].file_path
             /\ FailsAlone(file_paths[i], model_manager) =>
                    (~results[i].success /\ results[i].errors # << >>)
             /\ results[i] = process_rpd_file(file_paths[i], model_manager)

\* C30: a result with success True carries a validated record: a confidence,
\* a degree of the enumeration, and no field group that raised.
C30_SuccessIsValidated ==
    \A i \in DOMAIN results :
        results[i].success =>
            /\ results[i].extracted_data # None
            /\ results[i].extracted_data[1].extraction_confidence # None
            /\ results[i].extracted_data[1].academic_degree \in valid_degrees
            /\ ~GroupRaised(results[i].extracted_data[1])

(***************************************************************************)
(* The response parser called on its own, as the extractor's tests call it *)
(***************************************************************************)
\* how many chunks a response text has
MaxChunks == 3

Chunks == {Ws, Prose, Open, Close, Obj(GoodObject), Obj(OddObject), LongObject}

ResponseTexts == SeqsUpTo(Chunks, MaxChunks)

InitParser ==
    /\ model_manager = NoService
    /\ pc = "call"
    /\ raw_text = << >>
    /\ rpd_data = NoRecord
    /\ calls = << >>
    /\ exception = ""
    /\ json_text \in ResponseTexts
    /\ result = << >>
    /\ NoBatch /\ NoCache /\ NoClock

\* result = extractor._parse_json_response(json_text)
ParseJsonResponse ==
    /\ pc = "call"
    /\ LET returned == _parse_json_response(json_text)
       IN  /\ result' = returned.val
           /\ exception' = returned.exc
           /\ pc' = IF returned.raised THEN "raised" ELSE "returned"
    /\ UNCHANGED <<model_manager, raw_text, rpd_data, calls, json_text>>
    /\ UNCHANGED <<file_paths, results, cache_manager, now>>

NextParser == ParseJsonResponse

SpecParser == InitParser /\ [][NextParser]_vars

(***************************************************************************)
(* Properties of the response parser                                       *)
(***************************************************************************)
HasBraces(r) ==
    (\E i \in DOMAIN r : r[i].t \in WithOpen) /\ (\E i \in DOMAIN r : r[i].t \in WithClose)

\* the substring from the first '{' to the last '}'
BraceSlice(r) == SubSeq(r, FindOpen(r), RFindClose(r))

\* the slice is the text of one JSON object
IsJsonObject(slice) ==
    \/ Len(slice) = 1 /\ slice[1].t \in {"obj", "longobj"}
    \/ /\ Len(slice) >= 2
       /\ slice[1].t = "open"
       /\ slice[Len(slice)].t = "close"
       /\ \A i \in 2..(Len(slice) - 1) : slice[i].t = "ws"

\* C22: the parser never raises; it returns the object that the text from the
\* first '{' to the last '}' encodes when that text is JSON, and None
\* otherwise; an object wrapped in brace-free prose comes back as it was.
C22_ParserDecodesSlice ==
    pc \in {"returned", "raised"} =>
        /\ pc = "returned"
        /\ IF HasBraces(json_text) /\ IsJsonObject(BraceSlice(json_text))
           THEN /\ result # None
                /\ BraceSlice(json_text)[1].t = "obj" => result[1] = BraceSlice(json_text)[1].v
           ELSE result = None

(***************************************************************************)
(* The fallback extractors called on their own, as the extractor's tests   *)
(* call them                                                               *)
(***************************************************************************)
\* the lines of the documents, and lecture lines
FallbackLines == Lines \cup {Line("lekciya", One, p) : p \in {None, Some(Four)}}

FallbackTexts == SeqsUpTo(FallbackLines, MaxLines)

InitFallback ==
    /\ model_manager = NoService
    /\ pc = "call"
    /\ raw_text \in FallbackTexts
    /\ rpd_data = NoRecord
    /\ calls = << >>
    /\ exception = ""
    /\ NoBatch /\ NoHelperCall /\ NoCache /\ NoClock

\* the helper's return value or exception
Returned(g, out) ==
    /\ result' = out.val
    /\ exception' = out.exc
    /\ pc' = IF out.raised THEN "raised" ELSE "returned"
    /\ calls' = <<Event("fallback", g, 0)>>
    /\ UNCHANGED <<model_manager, raw_text, rpd_data, json_text>>
    /\ UNCHANGED <<file_paths, results, cache_manager, now>>

\* result = extractor._extract_lecture_themes_fallback(text)
LectureThemesFallback ==
    /\ pc = "call"
    /\ Returned("lecture_themes", _extract_lecture_themes_fallback(raw_text))

\* result = extractor._extract_literature_fallback(text)
LiteratureFallback ==
    /\ pc = "call"
    /\ Returned("literature", _extract_literature_fallback(raw_text))

NextFallback ==
    \/ LectureThemesFallback
    \/ LiteratureFallback

SpecFallback == InitFallback /\ [][NextFallback]_vars

(***************************************************************************)
(* Properties of the fallback extractors                                   *)
(***************************************************************************)
Called(g) == calls = <<Event("fallback", g, 0)>>

\* the lines each lecture pattern matches
MatchesOfTema == KindLines(raw_text, "tema")
MatchesOfLekciya == KindLines(raw_text, "lekciya")
MatchesOfParen ==
    SelectSeq(raw_text, LAMBDA l : l.kind \in {"tema", "lekciya"} /\ l.paren # None)

\* C23: the lecture-theme fallback returns one entry per match of each of its
\* three patterns, nothing left out across patterns; an entry of the pattern
\* that captures the hours carries them, every other entry 2.0; two theme
\* lines with hours give two entries at least.
C23_OneEntryPerMatch ==
    Called("lecture_themes") =>
        /\ pc = "returned"
        /\ Len(result) = Len(MatchesOfTema) + Len(MatchesOfLekciya) + Len(MatchesOfParen)
        /\ \A i \in DOMAIN result :
             result[i].hours =
                 IF i <= Len(MatchesOfTema) + Len(MatchesOfLekciya) THEN DefaultHours
                 ELSE MatchesOfParen[i - Len(MatchesOfTema) - Len(MatchesOfLekciya)].paren[1].val
        /\ Len(MatchesOfParen) >= 2 => Len(result) >= 2

\* the lines the literature fallback keeps
KeptLines ==
    SelectSeq(LiteratureSection(raw_text), LAMBDA l : LineLength(l) > MinReferenceLength)

\* C24: for every kept line of the literature section the entry's authors
\* are the text before the first period and its title the text after it;
\* a line without a period gives its whole text as authors and no title.
C24_SplitOnFirstPeriod ==
    Called("literature") =>
        /\ pc = "returned"
        /\ Len(result) = Len(KeptLines)
        /\ \A i \in DOMAIN result :
             LET x == LineText(KeptLines[i])
             IN  /\ result[i].authors = x.before
                 /\ result[i].title = IF x.period THEN x.after ELSE ""

(***************************************************************************)
(* The model manager of app/core/model_manager.py: get_llm_model calls and *)
(* the unload timer as asyncio tasks on one initialized manager.  A task   *)
(* runs from one await that suspends to the next; time is counted in       *)
(* seconds and passes while tasks are suspended.  A model instance is a    *)
(* number, None is 0.                                                      *)
(***************************************************************************)
\* how many get_llm_model calls are made
MaxGets == 3

\* how many times the timer's sleep elapses
MaxTicks == 4

\* asyncio.sleep(300)
CheckInterval == 300

\* timedelta(minutes=10), in seconds
UnloadAfter == 600

\* self.mock_services["ollama"], the one mock instance
MockOllama == 1

GetIds == 1..MaxGets

\* the unload timer's task
TimerTask == 0

Unlocked == 0

\* ModelManager.__init__, in mock mode or against a reachable Ollama;
\* created counts the clients _load_llm_model has made
ModelManager(use_mock_services) ==
    [use_mock_services |-> use_mock_services, llm_model |-> 0, model_last_used |-> None,
     model_load_lock |-> Unlocked, created |-> 0]

_unload_llm_model(m) == IF m.llm_model # 0 THEN [m EXCEPT !.llm_model = 0] ELSE m

InitManager ==
    /\ \E use_mock_services \in BOOLEAN : model_manager = ModelManager(use_mock_services)
    /\ pc = [t \in GetIds \cup {TimerTask} |-> IF t = TimerTask THEN "sleeping" ELSE "idle"]
    /\ raw_text = << >>
    /\ rpd_data = NoRecord
    /\ calls = << >>
    /\ exception = [c \in GetIds |-> ""]
    /\ file_paths = << >>
    /\ results = << >>
    /\ json_text = << >>
    /\ result = [c \in GetIds |-> 0]
    /\ NoCache
    /\ now = 0

manager_frame == <<raw_text, rpd_data, file_paths, results, json_text, cache_manager>>

Waiting == {c \in GetIds : pc[c] = "waiting"}

\* get_llm_model returns self.llm_model as it is now; the lock is released
Return(c, m, cs) ==
    /\ model_manager' = [m EXCEPT !.model_last_used = Some(now), !.model_load_lock = Unlocked]
    /\ result' = [result EXCEPT ![c] = m.llm_model]
    /\ pc' = [pc EXCEPT ![c] = "returned"]
    /\ calls' = Append(cs, Event("return", "", c))
    /\ UNCHANGED exception

\* the except clause of _load_llm_model: the model is dropped, the
\* exception leaves get_llm_model and the lock is released
LoadFailed(c, e) ==
    /\ model_manager' = [model_manager EXCEPT !.llm_model = 0, !.model_load_lock = Unlocked]
    /\ exception' = [exception EXCEPT ![c] = e]
    /\ pc' = [pc EXCEPT ![c] = "raised"]
    /\ calls' = Append(calls, Event("raise", "", c))
    /\ UNCHANGED result

\* the body of `async with self.model_load_lock` up to its first await that
\* suspends: a loaded model is returned at once, the mock is loaded at once,
\* a real load waits for _ensure_ollama_model_available
Enter(c, cs) ==
    IF model_manager.llm_model # 0 THEN Return(c, model_manager, cs)
    ELSE IF model_manager.use_mock_services
         THEN Return(c, [model_manager EXCEPT !.llm_model = MockOllama], cs)
         ELSE /\ model_manager' = [model_manager EXCEPT !.model_load_lock = c]
              /\ pc' = [pc EXCEPT ![c] = "ensure"]
              /\ calls' = cs
              /\ UNCHANGED <<result, exception>>

\* a caller calls get_llm_model: it takes the free lock and goes on, or waits
GetLlmModel(c) ==
    /\ pc[c] = "idle"
    /\ IF model_manager.model_load_lock = Unlocked /\ Waiting = {}
       THEN Enter(c, Append(calls, Event("get_llm_model", "", c)))
       ELSE /\ pc' = [pc EXCEPT ![c] = "waiting"]
            /\ calls' = Append(calls, Event("get_llm_model", "", c))
            /\ UNCHANGED <<model_manager, result, exception>>
    /\ UNCHANGED now
    /\ UNCHANGED manager_frame

\* a waiting caller is given the released lock
Acquire(c) ==
    /\ pc[c] = "waiting"
    /\ model_manager.model_load_lock = Unlocked
    /\ Enter(c, calls)
    /\ UNCHANGED now
    /\ UNCHANGED manager_frame

\* _ensure_ollama_model_available returns or raises; the client is made and
\* the load waits for _test_llm_model
EnsureAvailable(c) ==
    /\ pc[c] = "ensure"
    /\ \E ok \in BOOLEAN :
         IF ok
         THEN /\ model_manager' = [model_manager EXCEPT !.llm_model = model_manager.created + 1,
                                                        !.created = @ + 1]
              /\ pc' = [pc EXCEPT ![c] = "test"]
              /\ UNCHANGED <<result, exception, calls>>
         ELSE LoadFailed(c, "RuntimeError")
    /\ UNCHANGED now
    /\ UNCHANGED manager_frame

\* _test_llm_model returns or raises; get_llm_model sets model_last_used and
\* returns self.llm_model
TestModel(c) ==
    /\ pc[c] = "test"
    /\ \E ok \in BOOLEAN :
         IF ok THEN Return(c, model_manager, calls) ELSE LoadFailed(c, "RuntimeError")
    /\ UNCHANGED now
    /\ UNCHANGED manager_frame

\* the timer's sleep elapses; a task that can run does so before time passes
Tick ==
    /\ pc[TimerTask] = "sleeping"
    /\ now < MaxTicks * CheckInterval
    /\ ~(model_manager.model_load_lock = Unlocked /\ Waiting # {})
    /\ now' = now + CheckInterval
    /\ pc' = [pc EXCEPT ![TimerTask] = "woken"]
    /\ UNCHANGED <<model_manager, calls, exception, result>>
    /\ UNCHANGED manager_frame

\* _unload_timer after its sleep: a model unused for longer than the
\* threshold is unloaded
UnloadTimer ==
    /\ pc[TimerTask] = "woken"
    /\ model_manager' =
         IF /\ model_manager.llm_model # 0
            /\ model_manager.model_last_used # None
            /\ now - model_manager.model_last_used[1] > UnloadAfter
         THEN _unload_llm_model(model_manager)
         ELSE model_manager
    /\ pc' = [pc EXCEPT ![TimerTask] = "sleeping"]
    /\ UNCHANGED <<calls, exception, result, now>>
    /\ UNCHANGED manager_frame

NextManager ==
    \/ \E c \in GetIds :
         \/ GetLlmModel(c)
         \/ Acquire(c)
         \/ EnsureAvailable(c)
         \/ TestModel(c)
    \/ Tick
    \/ UnloadTimer

SpecManager == InitManager /\ [][NextManager]_vars

(***************************************************************************)
(* Properties of the model manager                                         *)
(***************************************************************************)
Loading == {"ensure", "test"}

\* where in the log call c was made, and where it ended (past the end of
\* the log while it has not)
MadeAt(c) == CHOOSE i \in DOMAIN calls : calls[i] = Event("get_llm_model", "", c)
EndedAt(c) ==
    IF \E i \in DOMAIN calls : calls[i].arg = c /\ calls[i].op \in {"return", "raise"}
    THEN CHOOSE i \in DOMAIN calls : calls[i].arg = c /\ calls[i].op \in {"return", "raise"}
    ELSE Len(calls) + 1

\* the calls c and d were in progress at the same time
Concurrent(c, d) ==
    /\ pc[c] # "idle" /\ pc[d] # "idle"
    /\ MadeAt(c) < EndedAt(d)
    /\ MadeAt(d) < EndedAt(c)

\* a load begins only while no model is loaded
LoadsWhenUnloaded ==
    \A c \in GetIds :
        (pc[c] \notin Loading /\ pc'[c] \in Loading) => model_manager.llm_model = 0

\* C25: concurrent get_llm_model calls return the same model instance; no
\* two loads overlap, and no load begins while a model is loaded.
C25_OneLoadOneInstance ==
    /\ [](\A c, d \in GetIds :
            (Concurrent(c, d) /\ pc[c] = "returned" /\ pc[d] = "returned")
                => result[c] = result[d])
    /\ [](\A c, d \in GetIds : (pc[c] \in Loading /\ pc[d] \in Loading) => c = d)
    /\ [][LoadsWhenUnloaded]_vars

\* C28: a get_llm_model call that returns gives a loaded model, whatever the
\* unload timer does meanwhile.
C28_ReturnsLoadedModel ==
    \A c \in GetIds : pc[c] = "returned" => result[c] # 0

(***************************************************************************)
(* The cache manager of app/core/cache.py over the MockRedis of            *)
(* app/core/mock_services.py: set, get, invalidate_pattern and direct      *)
(* stores into the in-memory layer, as the tests of tests/test_cache.py    *)
(* make them.  Time is counted in seconds; datetime.now() is the variable  *)
(* now.  A stored value is a string, and json.dumps / json.loads wrap and  *)
(* unwrap it.                                                              *)
(***************************************************************************)
\* the largest max_memory_cache_size a test sets
MaxSize == 5

\* how many direct stores the cleanup test's loop makes
MaxStores == 4

\* how many times the clock is advanced
MaxClock == 1

\* seconds by which the clock is advanced
TickSeconds == 5

\* settings.cache_ttl_seconds
cache_ttl_seconds == 3600

\* the cache entries the tests set: cache type and rendered parameters
Entry(cache_type, params) == [cache_type |-> cache_type, params |-> params]
Entries ==
    {Entry("test_type", "key=test_1"), Entry("other_type", "key=other_1")}

\* the patterns given to invalidate_pattern
Patterns == {"", "test", "3b"}

\* the ttl_seconds given to set
TtlSeconds == {None, Some(TickSeconds)}

\* the characters of a string
Chars(s) ==
    IF s = "" THEN <<>> ELSE
    IF s = "test" THEN <<"t", "e", "s", "t">> ELSE
    IF s = "3b" THEN <<"3", "b">> ELSE
    IF s = "test_type" THEN <<"t", "e", "s", "t", "_", "t", "y", "p", "e">> ELSE
    IF s = "other_type" THEN <<"o", "t", "h", "e", "r", "_", "t", "y", "p", "e">> ELSE
    IF s = "key=test_1" THEN <<"k", "e", "y", "=", "t", "e", "s", "t", "_", "1">> ELSE
    IF s = "key=other_1" THEN <<"k", "e", "y", "=", "o", "t", "h", "e", "r", "_", "1">> ELSE
    IF s = "4768a9ca885738f62e343ca3f8a56b75" THEN <<"4", "7", "6", "8", "a", "9", "c", "a", "8", "8", "5", "7", "3", "8", "f", "6", "2", "e", "3", "4", "3", "c", "a", "3", "f", "8", "a", "5", "6", "b", "7", "5">> ELSE
    IF s = "3bda57f53dea28155407ec40d11511f4" THEN <<"3", "b", "d", "a", "5", "7", "f", "5", "3", "d", "e", "a", "2", "8", "1", "5", "5", "4", "0", "7", "e", "c", "4", "0", "d", "1", "1", "5", "1", "1", "f", "4">> ELSE
    IF s = "test_key_0" THEN <<"t", "e", "s", "t", "_", "k", "e", "y", "_", "0">> ELSE
    IF s = "test_key_1" THEN <<"t", "e", "s", "t", "_", "k", "e", "y", "_", "1">> ELSE
    IF s = "test_key_2" THEN <<"t", "e", "s", "t", "_", "k", "e", "y", "_", "2">> ELSE
    IF s = "test_key_3" THEN <<"t", "e", "s", "t", "_", "k", "e", "y", "_", "3">> ELSE
    IF s = "test_key_4" THEN <<"t", "e", "s", "t", "_", "k", "e", "y", "_", "4">> ELSE
    IF s = "test_key_5" THEN <<"t", "e", "s", "t", "_", "k", "e", "y", "_", "5">> ELSE
    << >>

\* Python's `pattern in key`
In(pattern, key) ==
    LET p == Chars(pattern)
        k == Chars(key)
    IN  \E i \in 1..(Len(k) + 1) :
            /\ i + Len(p) - 1 <= Len(k)
            /\ SubSeq(k, i, i + Len(p) - 1) = p

\* hashlib.md5(key_data.encode()).hexdigest() of the key data of the entries
md5(key_data) ==
    IF key_data = <<"test_type", "key=test_1">> THEN "4768a9ca885738f62e343ca3f8a56b75" ELSE
    IF key_data = <<"other_type", "key=other_1">> THEN "3bda57f53dea28155407ec40d11511f4" ELSE
    "d41d8cd98f00b204e9800998ecf8427e"

_generate_cache_key(entry) == md5(<<entry.cache_type, entry.params>>)

\* the key the cleanup test's loop stores: f"test_key_{i}"
test_key(i) ==
    IF i = 0 THEN "test_key_0" ELSE
    IF i = 1 THEN "test_key_1" ELSE
    IF i = 2 THEN "test_key_2" ELSE
    IF i = 3 THEN "test_key_3" ELSE
    IF i = 4 THEN "test_key_4" ELSE
    "test_key_5"

json_dumps(data) == [json |-> data]
json_loads(cached_data) == cached_data.json

\* CacheManager() after initialize() with the mock Redis, and the
\* max_memory_cache_size a test then sets
CacheManager(max_memory_cache_size) ==
    [memory_cache |-> << >>, redis_client |-> {},
     max_memory_cache_size |-> max_memory_cache_size]

Position(memory_cache, key) ==
    IF \E i \in DOMAIN memory_cache : memory_cache[i].key = key
    THEN CHOOSE i \in DOMAIN memory_cache : memory_cache[i].key = key
    ELSE 0

\* del self.memory_cache[key] for every key in keys
Delete(memory_cache, keys) == SelectSeq(memory_cache, LAMBDA x : x.key \notin keys)

_cleanup_memory_cache(cm) ==
    LET expired_keys == {cm.memory_cache[i].key : i \in
                            {j \in DOMAIN cm.memory_cache : now >= cm.memory_cache[j].expires}}
        kept == Delete(cm.memory_cache, expired_keys)
        items_to_remove == (cm.max_memory_cache_size * 2) \div 10
    IN  IF Len(kept) >= cm.max_memory_cache_size
        THEN [cm EXCEPT !.memory_cache = SubSeq(kept, items_to_remove + 1, Len(kept))]
        ELSE [cm EXCEPT !.memory_cache = kept]

_store_in_memory_cache(cm, cache_key, data, ttl_seconds) ==
    LET ttl == IF ttl_seconds = None \/ ttl_seconds = Some(0)
               THEN cache_ttl_seconds ELSE ttl_seconds[1]
        item == [key |-> cache_key, data |-> data, expires |-> now + ttl]
        cleaned == IF Len(cm.memory_cache) >= cm.max_memory_cache_size
                   THEN _cleanup_memory_cache(cm) ELSE cm
        at == Position(cleaned.memory_cache, cache_key)
    IN  [cleaned EXCEPT !.memory_cache =
            IF at = 0 THEN Append(@, item) ELSE [@ EXCEPT ![at] = item]]

\* MockRedis.setex
setex(redis, key, ttl, value) ==
    {x \in redis : x.key # key} \cup {[key |-> key, data |-> value, expires |-> now + ttl]}

\* MockRedis.get: the value and the store it leaves
redis_get(redis, key) ==
    LET found == {x \in redis : x.key = key}
    IN  IF found = {} THEN [value |-> None, redis |-> redis]
        ELSE LET x == CHOOSE y \in found : TRUE
             IN  IF now > x.expires
                 THEN [value |-> None, redis |-> redis \ found]
                 ELSE [value |-> Some(x.data), redis |-> redis]

\* CacheManager.set: the manager it leaves
set(cm, entry, data, ttl_seconds) ==
    LET cache_key == _generate_cache_key(entry)
        ttl == IF ttl_seconds = None \/ ttl_seconds = Some(0)
               THEN cache_ttl_seconds ELSE ttl_seconds[1]
        stored == _store_in_memory_cache(cm, cache_key, data, Some(ttl))
    IN  [stored EXCEPT !.redis_client = setex(@, cache_key, ttl, json_dumps(data))]

\* CacheManager.get: the value it returns and the manager it leaves
get(cm, entry) ==
    LET cache_key == _generate_cache_key(entry)
        at == Position(cm.memory_cache, cache_key)
    IN  IF at # 0 /\ now < cm.memory_cache[at].expires
        THEN [value |-> Some(cm.memory_cache[at].data), cm |-> cm]
        ELSE LET dropped == [cm EXCEPT !.memory_cache = Delete(@, {cache_key})]
                 cached == redis_get(dropped.redis_client, cache_key)
                 read == [dropped EXCEPT !.redis_client = cached.redis]
             IN  IF cached.value # None
                 THEN LET data == json_loads(cached.value[1])
                      IN  [value |-> Some(data),
                           cm |-> _store_in_memory_cache(read, cache_key, data, None)]
                 ELSE [value |-> None, cm |-> read]

\* CacheManager.invalidate_pattern: the manager it leaves
invalidate_pattern(cm, pattern) ==
    LET keys == {x.key : x \in {y \in cm.redis_client : In(pattern, y.key)}}
        keys_to_remove == {cm.memory_cache[i].key : i \in
                              {j \in DOMAIN cm.memory_cache :
                                  In(pattern, cm.memory_cache[j].key)}}
    IN  [cm EXCEPT !.redis_client = {x \in @ : x.key \notin keys},
                   !.memory_cache = Delete(@, keys_to_remove)]

\* the value the tests store for an entry
DataOf(entry) == entry.params

\* calls[entry] is the most recent set of the entry: when, and with which
\* ttl_seconds; result is what the last get returned, and for which entry
InitCache ==
    /\ \E max_memory_cache_size \in 1..MaxSize :
         cache_manager = CacheManager(max_memory_cache_size)
    /\ now = 0
    /\ calls = [entry \in Entries |-> None]
    /\ result = << >>
    /\ pc = 0
    /\ exception = ""
    /\ model_manager = NoService
    /\ raw_text = << >>
    /\ rpd_data = NoRecord
    /\ json_text = << >>
    /\ NoBatch

cache_frame == <<model_manager, raw_text, rpd_data, exception, json_text, file_paths, results>>

\* await cache_manager.set(cache_type, data, ttl_seconds=ttl_seconds, **kwargs)
SetEntry(entry, ttl_seconds) ==
    /\ cache_manager' = set(cache_manager, entry, DataOf(entry), ttl_seconds)
    /\ calls' = [calls EXCEPT ![entry] = Some([at |-> now, ttl_seconds |-> ttl_seconds])]
    /\ UNCHANGED <<result, now, pc>>
    /\ UNCHANGED cache_frame

\* result = await cache_manager.get(cache_type, **kwargs)
GetEntry(entry) ==
    /\ LET returned == get(cache_manager, entry)
       IN  /\ cache_manager' = returned.cm
           /\ result' = Some([entry |-> entry, value |-> returned.value])
    /\ UNCHANGED <<calls, now, pc>>
    /\ UNCHANGED cache_frame

\* await cache_manager.invalidate_pattern(pattern)
InvalidatePattern(pattern) ==
    /\ cache_manager' = invalidate_pattern(cache_manager, pattern)
    /\ UNCHANGED <<calls, result, now, pc>>
    /\ UNCHANGED cache_frame

\* the cleanup test's loop: cache_manager._store_in_memory_cache(f"test_key_{i}",
\* f"value_{i}"); pc counts the stores made
StoreInMemory ==
    /\ pc < MaxStores
    /\ cache_manager' = _store_in_memory_cache(cache_manager, test_key(pc), "value", None)
    /\ pc' = pc + 1
    /\ UNCHANGED <<calls, result, now>>
    /\ UNCHANGED cache_frame

\* time passes
Elapse ==
    /\ now < MaxClock * TickSeconds
    /\ now' = now + TickSeconds
    /\ UNCHANGED <<cache_manager, calls, result, pc>>
    /\ UNCHANGED cache_frame

NextCache ==
    \/ \E entry \in Entries, ttl_seconds \in TtlSeconds : SetEntry(entry, ttl_seconds)
    \/ \E entry \in Entries : GetEntry(entry)
    \/ \E pattern \in Patterns : InvalidatePattern(pattern)
    \/ StoreInMemory
    \/ Elapse

SpecCache == InitCache /\ [][NextCache]_vars

(***************************************************************************)
(* Properties of the cache manager                                         *)
(***************************************************************************)
\* C26: the in-memory cache never holds more than 1.2 * max_memory_cache_size
\* entries, whatever is stored and whatever size of at least 1 is configured.
C26_MemoryCacheBounded ==
    10 * Len(cache_manager.memory_cache) <= 12 * cache_manager.max_memory_cache_size

\* the entry was set and its cache type or parameters contain the pattern
MatchesPattern(pattern, entry) ==
    In(pattern, entry.cache_type) \/ In(pattern, entry.params)

\* what a get of the entry would return now
Retrievable(entry) == get(cache_manager, entry).value

InvalidatesMatching ==
    \A pattern \in Patterns :
        InvalidatePattern(pattern) =>
            \A entry \in Entries :
                calls[entry] # None =>
                    IF MatchesPattern(pattern, entry)
                    THEN Retrievable(entry)' = None
                    ELSE Retrievable(entry)' = Retrievable(entry)

\* C27: after invalidate_pattern(p) a get returns None for every entry that
\* was set and whose cache type or parameters contain p, and what it returned
\* before for every other entry.
C27_InvalidatesMatching == [][InvalidatesMatching]_vars

\* the seconds an entry set with ttl_seconds lives
Lifetime(ttl_seconds) == IF ttl_seconds = None THEN cache_ttl_seconds ELSE ttl_seconds[1]

\* C29: a get returns no value once the ttl_seconds of the most recent set of
\* its entry have elapsed.
C29_NotReturnedAfterTtl ==
    \A entry \in Entries :
        (/\ calls[entry] # None
         /\ now - calls[entry][1].at >= Lifetime(calls[entry][1].ttl_seconds))
            => Retrievable(entry) = None

====
